---- MODULE Spec2Model ----
(***************************************************************************)
(* ODF manager: the client-side record normalizer (AppState in the browser *)
(* script) and the relational server (server.js).                          *)
(*                                                                         *)
(* JavaScript values are tagged records:                                   *)
(*   [t |-> "undef"], [t |-> "null"], [t |-> "str", s |-> chars],          *)
(*   [t |-> "num", n |-> Int], [t |-> "arr", a |-> Seq(value)],            *)
(*   [t |-> "map", m |-> Seq([k |-> chars, v |-> value])]                  *)
(* A JS string is the sequence of its characters, so that trim(),          *)
(* toLowerCase(), padStart() and String() are computed, not assumed.       *)
(* A JS object used as a map keeps its keys in insertion order.            *)
(***************************************************************************)
EXTENDS Integers, Sequences, FiniteSets, TLC

\* ---------------------------------------------------------------- bounds
MaxPorts == 2        \* longest enumerated raw port list
MaxDefs == 2         \* longest enumerated extraFieldDefs list

\* ------------------------------------------------------------- JS values
Undef == [t |-> "undef"]
Null == [t |-> "null"]
Str(s) == [t |-> "str", s |-> s]
Num(n) == [t |-> "num", n |-> n]
Arr(a) == [t |-> "arr", a |-> a]
Map(m) == [t |-> "map", m |-> m]

UpperChars == <<"A","B","C","D","E","F","G","H","I","J","K","L","M",
                "N","O","P","Q","R","S","T","U","V","W","X","Y","Z">>
LowerChars == <<"a","b","c","d","e","f","g","h","i","j","k","l","m",
                "n","o","p","q","r","s","t","u","v","w","x","y","z">>
DigitChars == <<"0","1","2","3","4","5","6","7","8","9">>

IsDigit(c) == \E i \in 1..10 : DigitChars[i] = c
DigitVal(c) == (CHOOSE i \in 1..10 : DigitChars[i] = c) - 1
IsSpace(c) == c = " "

\* String.prototype.toLowerCase
LowerChar(c) ==
  IF \E i \in 1..26 : UpperChars[i] = c
    THEN LowerChars[CHOOSE i \in 1..26 : UpperChars[i] = c]
    ELSE c
ToLowerCase(s) == [i \in 1..Len(s) |-> LowerChar(s[i])]

\* String.prototype.trim
RECURSIVE TrimStart(_)
TrimStart(s) ==
  IF s # <<>> /\ IsSpace(Head(s)) THEN TrimStart(Tail(s)) ELSE s
RECURSIVE TrimEnd(_)
TrimEnd(s) ==
  IF s # <<>> /\ IsSpace(s[Len(s)]) THEN TrimEnd(SubSeq(s, 1, Len(s) - 1)) ELSE s
Trim(s) == TrimEnd(TrimStart(s))

\* Number.prototype.toString for integers
RECURSIVE NatDigits(_)
NatDigits(n) ==
  IF n < 10 THEN <<DigitChars[n + 1]>>
  ELSE NatDigits(n \div 10) \o <<DigitChars[(n % 10) + 1]>>
IntDigits(n) == IF n < 0 THEN <<"-">> \o NatDigits(0 - n) ELSE NatDigits(n)

\* String.prototype.padStart(width, fill) with a one-character fill
RECURSIVE PadStart(_, _, _)
PadStart(s, width, fill) ==
  IF Len(s) >= width THEN s ELSE PadStart(<<fill>> \o s, width, fill)

\* String(value) for the scalar values a text field can carry
JsString(v) ==
  CASE v.t = "str" -> v.s
    [] v.t = "num" -> IntDigits(v.n)
    [] v.t = "null" -> <<"n","u","l","l">>
    [] v.t = "undef" -> <<"u","n","d","e","f","i","n","e","d">>

\* truthiness of a JS value (objects and arrays are truthy)
Truthy(v) ==
  CASE v.t = "undef" -> FALSE
    [] v.t = "null" -> FALSE
    [] v.t = "str" -> v.s # <<>>
    [] v.t = "num" -> v.n # 0
    [] OTHER -> TRUE

IsArray(v) == v.t = "arr"

\* Number(value): [fin |-> is the result finite, n |-> its value]
NaN == [fin |-> FALSE, n |-> 0]
AllDigits(s) == s # <<>> /\ \A i \in 1..Len(s) : IsDigit(s[i])
RECURSIVE DigitsVal(_)
DigitsVal(s) ==
  IF s = <<>> THEN 0 ELSE DigitsVal(SubSeq(s, 1, Len(s) - 1)) * 10 + DigitVal(s[Len(s)])
StringToNumber(s) ==
  LET x == Trim(s) IN
  IF x = <<>> THEN [fin |-> TRUE, n |-> 0]
  ELSE IF AllDigits(x) THEN [fin |-> TRUE, n |-> DigitsVal(x)]
  ELSE IF Head(x) = "-" /\ AllDigits(Tail(x)) THEN [fin |-> TRUE, n |-> 0 - DigitsVal(Tail(x))]
  ELSE NaN
JsNumber(v) ==
  CASE v.t = "undef" -> NaN
    [] v.t = "null" -> [fin |-> TRUE, n |-> 0]
    [] v.t = "num" -> [fin |-> TRUE, n |-> v.n]
    [] v.t = "str" -> StringToNumber(v.s)
    [] OTHER -> NaN

\* Array.prototype.slice(0, end) for an integer end
Slice0(a, end) ==
  LET e == IF end < 0 THEN (IF Len(a) + end < 0 THEN 0 ELSE Len(a) + end)
           ELSE (IF end > Len(a) THEN Len(a) ELSE end)
  IN SubSeq(a, 1, e)

\* ordered maps (JS objects with string keys)
MapHas(m, key) == \E i \in 1..Len(m) : m[i].k = key
MapGet(m, key) == m[CHOOSE i \in 1..Len(m) : m[i].k = key].v
MapSet(m, key, value) ==
  IF MapHas(m, key)
    THEN [i \in 1..Len(m) |-> IF m[i].k = key THEN [k |-> key, v |-> value] ELSE m[i]]
    ELSE Append(m, [k |-> key, v |-> value])
MapKeys(m) == [i \in 1..Len(m) |-> m[i].k]

\* ------------------------------------------------- client: port records
\* A port object carries the thirteen wire fields and the two legacy
\* custom-field containers; a field the object does not have is Undef.
PortObj(id, label, status, fiberType, connectorType, destination, otdrDistance, otdrDistanceValue, lastMaintained, branchingJoint, cxLocation, notes, customFields, extraFieldValues, extraFields) ==
  [id |-> id, label |-> label, status |-> status, fiberType |-> fiberType,
   connectorType |-> connectorType, destination |-> destination,
   otdrDistance |-> otdrDistance, otdrDistanceValue |-> otdrDistanceValue,
   lastMaintained |-> lastMaintained, branchingJoint |-> branchingJoint,
   cxLocation |-> cxLocation, notes |-> notes, customFields |-> customFields,
   extraFieldValues |-> extraFieldValues, extraFields |-> extraFields]

\* `port || {}`
EmptyObj ==
  PortObj(Undef, Undef, Undef, Undef, Undef, Undef, Undef, Undef, Undef, Undef,
          Undef, Undef, Undef, Undef, Undef)
OrEmpty(port) == IF port = Null THEN EmptyObj ELSE port

\* cleanText inside normalizeLoadedPorts
cleanText(value) ==
  IF value.t \in {"null", "undef"} THEN <<>>
  ELSE IF value.t = "str" /\ ToLowerCase(Trim(value.s)) = <<"n","u","l","l">> THEN <<>>
  ELSE JsString(value)

\* text.match(/^\d{4}-\d{2}-\d{2}/)
MatchesDatePrefix(text) ==
  /\ Len(text) >= 10
  /\ \A i \in {1, 2, 3, 4, 6, 7, 9, 10} : IsDigit(text[i])
  /\ text[5] = "-"
  /\ text[8] = "-"

\* new Date(text) followed by toISOString().split('T')[0].  The ISO forms
\* "YYYY" and "YYYY-MM" are parsed as UTC; every other text of the modelled
\* input domain carries no digits and is an Invalid Date.
DateParse(text) ==
  IF Len(text) = 4 /\ AllDigits(text)
    THEN [valid |-> TRUE, iso |-> text \o <<"-","0","1","-","0","1">>]
  ELSE IF /\ Len(text) = 7
          /\ AllDigits(SubSeq(text, 1, 4))
          /\ text[5] = "-"
          /\ AllDigits(SubSeq(text, 6, 7))
          /\ DigitsVal(SubSeq(text, 6, 7)) \in 1..12
    THEN [valid |-> TRUE, iso |-> text \o <<"-","0","1">>]
  ELSE [valid |-> FALSE, iso |-> <<>>]

\* cleanDate inside normalizeLoadedPorts
cleanDate(value) ==
  LET text == cleanText(value) IN
  IF text = <<>> THEN <<>>
  ELSE IF MatchesDatePrefix(text) THEN SubSeq(text, 1, 10)
  ELSE IF DateParse(text).valid THEN DateParse(text).iso
  ELSE text

\* `PORT-${n.toString().padStart(3, '0')}`
PortLabel(n) == <<"P","O","R","T","-">> \o PadStart(IntDigits(n), 3, "0")

\* String(label || '').trim()
LabelKey(label) == IF Truthy(label) THEN Trim(JsString(label)) ELSE <<>>

\* ResolveValue with the two legacy encodings consulted in the wrong order
ResolveValueRecordsFirst(existingMap, legacyArray, legacyObjects, key, index) ==
  IF existingMap # Null /\ MapHas(existingMap.m, key) THEN MapGet(existingMap.m, key)
  ELSE IF legacyObjects # Null /\ index < Len(legacyObjects.a)
    THEN LET rec == legacyObjects.a[index + 1] IN
         IF Truthy(rec) /\ rec.t = "map" /\ MapHas(rec.m, <<"v","a","l","u","e">>)
              /\ MapGet(rec.m, <<"v","a","l","u","e">>) # Undef
           THEN MapGet(rec.m, <<"v","a","l","u","e">>)
           ELSE Str(<<>>)
  ELSE IF legacyArray # Null /\ index < Len(legacyArray.a) THEN legacyArray.a[index + 1]
  ELSE Str(<<>>)

\* the value normalizeCustomFields picks for the definition at 0-based index
ResolveValue(existingMap, legacyArray, legacyObjects, key, index) ==
  IF existingMap # Null /\ MapHas(existingMap.m, key) THEN MapGet(existingMap.m, key)
  ELSE IF legacyArray # Null /\ index < Len(legacyArray.a) THEN legacyArray.a[index + 1]
  ELSE IF legacyObjects # Null /\ index < Len(legacyObjects.a)
    THEN LET rec == legacyObjects.a[index + 1] IN
         IF Truthy(rec) /\ rec.t = "map" /\ MapHas(rec.m, <<"v","a","l","u","e">>)
              /\ MapGet(rec.m, <<"v","a","l","u","e">>) # Undef
           THEN MapGet(rec.m, <<"v","a","l","u","e">>)
           ELSE Str(<<>>)
  ELSE Str(<<>>)

\* the defList.forEach loop of normalizeCustomFields, from 0-based index on
RECURSIVE ForEachDef(_, _, _, _, _, _)
ForEachDef(defList, index, existingMap, legacyArray, legacyObjects, result) ==
  IF index >= Len(defList) THEN result
  ELSE LET key == LabelKey(defList[index + 1]) IN
       ForEachDef(defList, index + 1, existingMap, legacyArray, legacyObjects,
         IF key = <<>> THEN result
         ELSE MapSet(result, key,
                ResolveValue(existingMap, legacyArray, legacyObjects, key, index)))

\* AppState.normalizeCustomFields(port, defs): the result object
normalizeCustomFields(port, defs) ==
  LET defList == IF IsArray(defs) THEN defs.a ELSE <<>>
      legacyArray == IF port # Null /\ IsArray(port.extraFieldValues)
                       THEN port.extraFieldValues ELSE Null
      legacyObjects == IF port # Null /\ IsArray(port.extraFields)
                         THEN port.extraFields ELSE Null
      existingMap == IF port # Null /\ port.customFields.t = "map"
                       THEN port.customFields ELSE Null
  IN Map(ForEachDef(defList, 0, existingMap, legacyArray, legacyObjects, <<>>))

\* BasePort with `...rest` spread last, so that an id carried by the input wins
BasePortTrustId(port, index, extraFieldDefs) ==
  LET rest == OrEmpty(port) IN
  PortObj(IF rest.id # Undef THEN rest.id ELSE Num(index + 1),
          Str(PortLabel(index + 1)),
          rest.status,
          Str(cleanText(rest.fiberType)),
          Str(cleanText(rest.connectorType)),
          Str(cleanText(rest.destination)),
          Str(cleanText(rest.otdrDistance)),
          Str(cleanText(rest.otdrDistanceValue)),
          Str(cleanDate(rest.lastMaintained)),
          Str(cleanText(rest.branchingJoint)),
          Str(cleanText(rest.cxLocation)),
          Str(cleanText(rest.notes)),
          normalizeCustomFields(port, extraFieldDefs),
          Undef,
          Undef)

\* the callback of normalizedPorts.map in normalizeLoadedPorts (0-based index)
BasePort(port, index, extraFieldDefs) ==
  LET rest == OrEmpty(port) IN
  PortObj(Num(index + 1),
          Str(PortLabel(index + 1)),
          rest.status,
          Str(cleanText(rest.fiberType)),
          Str(cleanText(rest.connectorType)),
          Str(cleanText(rest.destination)),
          Str(cleanText(rest.otdrDistance)),
          Str(cleanText(rest.otdrDistanceValue)),
          Str(cleanDate(rest.lastMaintained)),
          Str(cleanText(rest.branchingJoint)),
          Str(cleanText(rest.cxLocation)),
          Str(cleanText(rest.notes)),
          normalizeCustomFields(port, extraFieldDefs),
          Undef,
          Undef)

\* KeptPorts with an off-by-one slice end
KeptPortsOffByOne(ports, displayCount) ==
  LET parsedCount == JsNumber(displayCount)
      copy == IF IsArray(ports) THEN ports.a ELSE <<>>
  IN IF ~parsedCount.fin THEN copy ELSE Slice0(copy, parsedCount.n - 1)

\* the ports kept by normalizeLoadedPorts before they are rewritten
KeptPorts(ports, displayCount) ==
  LET parsedCount == JsNumber(displayCount)
      copy == IF IsArray(ports) THEN ports.a ELSE <<>>
  IN IF ~parsedCount.fin THEN copy ELSE Slice0(copy, parsedCount.n)

\* normalizeLoadedPorts reporting the submitted count instead of the length
normalizeLoadedPortsTrustCount(ports, displayCount, extraFieldDefs) ==
  LET kept == KeptPorts(ports, displayCount)
      normalizedPorts == [i \in 1..Len(kept) |-> BasePort(kept[i], i - 1, extraFieldDefs)]
  IN [ports |-> normalizedPorts,
      displayCount |-> IF JsNumber(displayCount).fin THEN JsNumber(displayCount).n
                       ELSE Len(normalizedPorts)]

\* AppState.normalizeLoadedPorts(ports, displayCount, extraFieldDefs)
normalizeLoadedPorts(ports, displayCount, extraFieldDefs) ==
  LET kept == KeptPorts(ports, displayCount)
      normalizedPorts == [i \in 1..Len(kept) |-> BasePort(kept[i], i - 1, extraFieldDefs)]
  IN [ports |-> normalizedPorts, displayCount |-> Len(normalizedPorts)]

\* AppState.resolveInitialPortId() for a given ODFContext.initialPortId
resolveInitialPortId(portList, initialPortId) ==
  LET portCount == Len(portList)
      requested == JsNumber(initialPortId)
  IN IF portCount < 1 THEN 1
     ELSE IF ~requested.fin \/ requested.n < 1 THEN 1
     ELSE IF requested.n > portCount THEN portCount ELSE requested.n

\* AppState.createDefaultPort(id) on a day `today`
createDefaultPort(id, today, defs) ==
  PortObj(Num(id), Str(PortLabel(id)), Str(<<"I","N","A","C","T","I","V","E">>),
          Str(<<"S","i","n","g","l","e","-","m","o","d","e"," ","O","S","2">>),
          Str(<<"L","C","/","U","P","C">>),
          Str(<<>>), Str(<<>>), Str(<<>>), Str(today), Str(<<>>), Str(<<>>), Str(<<>>),
          normalizeCustomFields(EmptyObj, Arr(defs)), Undef, Undef)

\* AppState.generateDefaultPorts(count)
generateDefaultPorts(count, today, defs) ==
  [i \in 1..count |-> createDefaultPort(i, today, defs)]

\* ------------------------------------------------------- sample raw data
sDistance == <<"D","i","s","t","a","n","c","e">>
sOwner == <<"O","w","n","e","r">>
sValue == <<"v","a","l","u","e">>
s10km == <<"1","0","k","m">>

\* map-shaped custom fields with a stray key; id and label are junk
RawPortMap ==
  PortObj(Num(7), Str(<<"X">>), Str(<<"A","C","T","I","V","E">>),
          Str(<<"O","S","2">>), Null, Str(<<" ","N","U","L","L"," ">>), Num(12), Undef,
          Str(<<"2","0","2","4","-","0","5","-","0","6","T","1","0">>),
          Str(<<"n","u","l","l">>), Str(<<>>), Str(<<"o","k">>),
          Map(<<[k |-> sDistance, v |-> Str(<<"3","k","m">>)],
                [k |-> <<"S","t","r","a","y">>, v |-> Str(<<"x">>)]>>),
          Undef, Undef)
\* no map-shaped custom fields (an array was submitted as customFields), the
\* legacy flat value sequence ["10km"] and a legacy record sequence
RawPortFlat ==
  PortObj(Undef, Undef, Str(<<"F","A","U","L","T","Y">>),
          Undef, Str(<<"L","C">>), Str(<<"h","u","b">>), Undef, Num(0),
          Str(<<"t","b","d">>),
          Undef, Null, Undef,
          Arr(<<Str(<<"z">>)>>), Arr(<<Str(s10km)>>),
          Arr(<<Map(<<[k |-> sValue, v |-> Str(<<"5","k","m">>)]>>), Null>>))
\* all three encodings at once
RawPortMixed ==
  PortObj(Num(2), Undef, Str(<<"I","N","A","C","T","I","V","E">>),
          Str(<<>>), Str(<<>>), Str(<<>>), Str(<<>>), Str(<<>>),
          Str(<<"2","0","2","4">>),
          Str(<<>>), Str(<<>>), Str(<<>>),
          Map(<<[k |-> sOwner, v |-> Str(<<"b","o","b">>)]>>),
          Arr(<<Str(<<"1","k","m">>)>>),
          Arr(<<Map(<<[k |-> sValue, v |-> Str(<<"a">>)]>>),
                Map(<<[k |-> sValue, v |-> Str(<<"b">>)]>>)>>))

RawPorts == {RawPortMap, RawPortFlat, RawPortMixed, Null}

\* raw `ports` values: lists up to MaxPorts, the eight-port list of the
\* count-shrinking scenario, and values that are not a sequence
RawPortLists ==
  {Arr(a) : a \in UNION {[1..n -> RawPorts] : n \in 0..MaxPorts}}
    \cup {Arr([i \in 1..8 |-> RawPortFlat]), Null, Undef}

RawCounts ==
  {Undef, Null, Num(1), Num(5), Num(0 - 1), Str(<<"2">>), Str(<<"a","b","c">>)}

RawLabels ==
  {Str(sDistance), Str(sOwner), Str(<<" ">> \o sDistance \o <<" ">>), Str(<<>>)}

RawDefLists ==
  {Arr(a) : a \in UNION {[1..n -> RawLabels] : n \in 0..MaxDefs}} \cup {Undef}

\* what DatabaseService.loadState can resolve to: null or a raw entry
RawEntries ==
  {Null} \cup
  {[ports |-> p, displayCount |-> c, extraFieldDefs |-> d] :
     p \in RawPortLists, c \in RawCounts, d \in RawDefLists}

InitialPortIds == {Null, Num(2)}
Dates == {<<"2","0","2","6","-","1","1","-","0","1">>}

\* ------------------------------------------------------------ the state
VARIABLES
  saved,          \* what loadState resolves to for this page
  AppState,       \* the client's AppState object
  phase,          \* "loading" before AppState.init has run, then "ready"
  saveRequests,   \* DatabaseService.saveState calls issued by the client
  normalized,     \* normalizeLoadedPorts applied to the raw entry (Undef: not yet)
  renormalized,   \* normalizeLoadedPorts applied to `normalized` (Undef: not yet)
  autoSaveTimer,  \* UIRenderer.autoSaveTimer: "none" or "pending"
  completed,      \* the positions in saveRequests of the saves the server has stored
  db,             \* the committed tables: subregions, odf_entries, ports
  nextId,         \* AUTO_INCREMENT of odf_entries.id
  request,        \* the API request the server answered last (Null: none yet)
  response,       \* the answer to it: [status, body]
  conn            \* per pool connection: the transaction it runs, statement by statement

clientVars ==
  <<saved, AppState, phase, saveRequests, normalized, renormalized, autoSaveTimer, completed>>
serverVars == <<db, nextId, request, response, conn>>
vars == <<saved, AppState, phase, saveRequests, normalized, renormalized,
          autoSaveTimer, completed,
          db, nextId, request, response, conn>>

\* the empty database
EmptyDb == [subregions |-> {}, odf_entries |-> {}, ports |-> <<>>]

\* the pool connections that run interleaved transactions
Conns == {1, 2}
\* a connection outside a transaction; begun counts its transactions and
\* overlapped names the transactions that were open when its last one committed
IdleConn ==
  [pc |-> "idle", req |-> Null, existing |-> {}, odfId |-> 0, snap |-> {},
   mine |-> {}, locked |-> {}, added |-> <<>>, createdCount |-> 0, begun |-> 0,
   overlapped |-> {}, response |-> Null]

\* the AppState object literal
AppStateInitial ==
  [ports |-> <<>>, displayCount |-> 96, selectedPortId |-> Null, maxPorts |-> 576,
   isEditing |-> FALSE, extraFieldDefs |-> <<>>]

InitNorm ==
  /\ saved \in RawEntries
  /\ AppState = AppStateInitial
  /\ phase = "loading"
  /\ saveRequests = <<>>
  /\ normalized = Undef
  /\ renormalized = Undef
  /\ autoSaveTimer = "none"
  /\ completed = {}
  /\ db = EmptyDb
  /\ nextId = 1
  /\ request = Null
  /\ response = Null
  /\ conn = [c \in Conns |-> IdleConn]

\* AppState.deriveExtraFieldDefs(ports)
deriveExtraFieldDefs(ports) == <<>>

\* the branch condition of AppState.init
SavedUsable(s) == s # Null /\ IsArray(s.ports) /\ Len(s.ports.a) > 0

\* AppState.init()
AppInit ==
  /\ phase = "loading"
  /\ \E initialPortId \in InitialPortIds, today \in Dates :
       IF SavedUsable(saved)
         THEN LET defs == IF IsArray(saved.extraFieldDefs) THEN saved.extraFieldDefs.a ELSE <<>>
                  norm == normalizeLoadedPorts(saved.ports, saved.displayCount, Arr(defs))
              IN /\ AppState' = [AppState EXCEPT
                      !.extraFieldDefs = defs,
                      !.ports = norm.ports,
                      !.displayCount = norm.displayCount,
                      !.selectedPortId = Num(resolveInitialPortId(norm.ports, initialPortId)),
                      !.isEditing = FALSE]
                 /\ saveRequests' = saveRequests
         ELSE LET fresh == generateDefaultPorts(96, today, <<>>)
              IN /\ AppState' = [AppState EXCEPT
                      !.displayCount = 96,
                      !.extraFieldDefs = <<>>,
                      !.ports = fresh,
                      !.selectedPortId = Num(resolveInitialPortId(fresh, initialPortId)),
                      !.isEditing = FALSE]
                 /\ saveRequests' = Append(saveRequests,
                      [ports |-> fresh, displayCount |-> 96, extraFieldDefs |-> <<>>])
  /\ phase' = "ready"
  /\ UNCHANGED <<saved, normalized, renormalized, autoSaveTimer, completed>>
  /\ UNCHANGED serverVars

\* normalizeLoadedPorts applied to the fields of the raw entry
Normalize ==
  /\ saved # Null
  /\ normalized = Undef
  /\ normalized' = normalizeLoadedPorts(saved.ports, saved.displayCount, saved.extraFieldDefs)
  /\ UNCHANGED <<saved, AppState, phase, saveRequests, renormalized, autoSaveTimer, completed>>
  /\ UNCHANGED serverVars

\* normalizeLoadedPorts applied to its own output, with the same extraFieldDefs
Renormalize ==
  /\ normalized # Undef
  /\ renormalized = Undef
  /\ renormalized' = normalizeLoadedPorts(Arr(normalized.ports), Num(normalized.displayCount),
                                          saved.extraFieldDefs)
  /\ UNCHANGED <<saved, AppState, phase, saveRequests, normalized, autoSaveTimer, completed>>
  /\ UNCHANGED serverVars

NextNorm == AppInit \/ Normalize \/ Renormalize

SpecNorm == InitNorm /\ [][NextNorm]_vars

\* ------------------------------------------------------ server: helpers
MaxId == 4           \* requests are admitted while AUTO_INCREMENT is below it

\* toText (server.js)
toText(value) ==
  IF value.t \in {"null", "undef"} THEN <<>>
  ELSE IF value.t = "str" /\ ToLowerCase(Trim(value.s)) = <<"n","u","l","l">> THEN <<>>
  ELSE JsString(value)

\* /^\d{4}-\d{2}-\d{2}$/.test(text)
IsSqlDate(text) == Len(text) = 10 /\ MatchesDatePrefix(text)

\* toSqlDate (server.js); JSON payloads carry no Date instances
toSqlDate(value) ==
  IF value.t \in {"null", "undef"} \/ value = Str(<<>>) THEN <<>>
  ELSE LET text == Trim(JsString(value)) IN
       IF text = <<>> \/ ToLowerCase(text) = <<"n","u","l","l">> THEN <<>>
       ELSE IF IsSqlDate(text) THEN text
       ELSE IF DateParse(text).valid THEN DateParse(text).iso
       ELSE <<>>

\* the value JSON.stringify serialises: undefined array elements become null,
\* undefined-valued keys are omitted
RECURSIVE JsonValue(_)
JsonValue(v) ==
  CASE v.t = "arr" ->
         Arr([i \in 1..Len(v.a) |-> IF v.a[i] = Undef THEN Null ELSE JsonValue(v.a[i])])
    [] v.t = "map" ->
         LET Defined(e) == e.v # Undef
             keptEntries == SelectSeq(v.m, Defined)
         IN Map([i \in 1..Len(keptEntries) |->
                   [k |-> keptEntries[i].k, v |-> JsonValue(keptEntries[i].v)]])
    [] OTHER -> v
\* JSON.stringify(value): a JSON text
JsonStringify(v) == [t |-> "json", v |-> JsonValue(v)]

\* parseJsonField(value, fallback): a stored JSON document comes back as the
\* value it encodes, either already parsed by the driver (typeof 'object')
\* or through JSON.parse; NULL, '' and text that is not JSON give the fallback
parseJsonField(value, fallback) ==
  IF value.t = "json" THEN value.v ELSE fallback

\* a bound value as the SQL layer stores it: undefined is written as NULL
SqlValue(v) == IF v = Undef THEN Null ELSE v

\* `a || b`
Or(a, b) == IF Truthy(a) THEN a ELSE b

sINACTIVE == <<"I","N","A","C","T","I","V","E">>
DEFAULT_DISPLAY_COUNT == 96

\* createDefaultPorts numbering from 0
createDefaultPortsFromZero(count, today) ==
  [i \in 1..count |->
     PortObj(Num(i - 1), Str(<<"P","O","R","T","-">> \o PadStart(IntDigits(i - 1), 3, "0")),
             Str(sINACTIVE),
             Str(<<"S","i","n","g","l","e","-","m","o","d","e"," ","O","S","2">>),
             Str(<<"L","C","/","U","P","C">>),
             Str(<<>>), Str(<<>>), Str(<<>>), Str(today), Str(<<>>), Str(<<>>), Str(<<>>),
             Map(<<>>), Undef, Undef)]
\* createDefaultPorts(count) on a day `today` (server.js)
createDefaultPorts(count, today) ==
  [i \in 1..count |->
     PortObj(Num(i), Str(<<"P","O","R","T","-">> \o PadStart(IntDigits(i), 3, "0")),
             Str(sINACTIVE),
             Str(<<"S","i","n","g","l","e","-","m","o","d","e"," ","O","S","2">>),
             Str(<<"L","C","/","U","P","C">>),
             Str(<<>>), Str(<<>>), Str(<<>>), Str(today), Str(<<>>), Str(<<>>), Str(<<>>),
             Map(<<>>), Undef, Undef)]

\* a row of table ports
PortRowOf(odfId, id, label, status, fiberType, connectorType, destination, otdrDistance, otdrDistanceValue, lastMaintained, branchingJoint, cxLocation, notes, customFields) ==
  [odf_id |-> odfId, port_number |-> id, label |-> label, status |-> status,
   fiberType |-> fiberType, connectorType |-> connectorType,
   destination |-> destination, otdrDistance |-> otdrDistance,
   otdrDistanceValue |-> otdrDistanceValue, lastMaintained |-> lastMaintained,
   branchingJoint |-> branchingJoint, cxLocation |-> cxLocation, notes |-> notes,
   customFields |-> customFields]

\* the portValues row saveOdfEntry builds for port p
SavedPortRow(odfId, p) ==
  PortRowOf(odfId, SqlValue(p.id), SqlValue(p.label),
            Or(p.status, Str(sINACTIVE)), Or(p.fiberType, Str(<<>>)),
            Or(p.connectorType, Str(<<>>)),
            Str(toText(p.destination)), Str(toText(p.otdrDistance)),
            Str(toText(p.otdrDistanceValue)), Str(toSqlDate(p.lastMaintained)),
            Str(toText(p.branchingJoint)), Str(toText(p.cxLocation)),
            Str(toText(p.notes)),
            IF Truthy(p.customFields) THEN JsonStringify(p.customFields) ELSE Null)

\* the portValues row ensureOdfEntryExists builds for default port p
DefaultPortRow(odfId, p) ==
  PortRowOf(odfId, p.id, p.label, p.status, p.fiberType, p.connectorType,
            p.destination, p.otdrDistance, p.otdrDistanceValue, p.lastMaintained,
            p.branchingJoint, p.cxLocation, p.notes, JsonStringify(p.customFields))

\* SELECT id FROM odf_entries WHERE region = ? AND sub = ?
SelectEntry(d, region, sub) ==
  {e \in d.odf_entries : e.region = region /\ e.sub = sub}

\* DELETE FROM ports WHERE odf_id IN ids
DeletePorts(portRows, ids) ==
  LET Keep(r) == r.odf_id \notin ids IN SelectSeq(portRows, Keep)

\* DELETE FROM odf_entries for the given rows; their ports cascade
DeleteEntries(d, rows) ==
  [d EXCEPT !.odf_entries = d.odf_entries \ rows,
            !.ports = DeletePorts(d.ports, {e.id : e \in rows})]

\* { error: 'Server error', details: error.message } with status 500
ServerError(details) ==
  [status |-> 500, body |-> [error |-> "Server error", details |-> details]]

\* a rollback that undoes nothing
RollbackNothing(before, partial) == partial
\* connection.rollback() of the reconciliation: the store is as it was at
\* beginTransaction
Rollback(before, partial) == before

\* a catch block of saveOdfEntry that keeps what was written
SaveRollbackNothing(before, partial) == partial
\* connection.rollback() of saveOdfEntry
SaveRollback(before, partial) == before

batchSize == 100

\* the statement of saveOdfEntry at which the storage throws (a lost
\* connection, a failed write): none, the first batch INSERT INTO ports, a
\* later batch, or the commit
SaveFaults == {"none", "ports", "batch", "commit"}
SaveFaultApplies(fault, portList) ==
  /\ fault = "ports" => Len(portList) > 0
  /\ fault = "batch" => Len(portList) > batchSize

\* saveOdfEntry(region, sub, ports, displayCount, extraFieldDefs) with the
\* AUTO_INCREMENT at nid and the storage failing at `fault`:
\* [ok, db, nextId, details]; on a throw the transaction is rolled back while
\* a consumed id stays consumed.  The column lastSave (the wall clock) is not
\* modelled.
saveOdfEntry(d, nid, region, sub, portList, displayCount, extraFieldDefs, fault) ==
  LET existing == SelectEntry(d, region, sub)
      odfId == IF existing # {} THEN (CHOOSE e \in existing : TRUE).id ELSE nid
      after == IF existing # {} THEN nid ELSE nid + 1
      row == [id |-> odfId, region |-> region, sub |-> sub,
              displayCount |-> displayCount,
              extraFieldDefs |-> JsonStringify(extraFieldDefs)]
      upserted ==
        IF existing # {}
          THEN [d EXCEPT
                 !.odf_entries = {IF e.id = odfId THEN row ELSE e : e \in d.odf_entries},
                 !.ports = DeletePorts(d.ports, {odfId})]
          ELSE [d EXCEPT !.odf_entries = d.odf_entries \cup {row}]
      \* the batches that inserted the first n ports
      Inserted(n) ==
        [upserted EXCEPT !.ports = upserted.ports \o
                           [i \in 1..n |-> SavedPortRow(odfId, portList[i])]]
      partial == CASE fault = "ports" -> upserted
                   [] fault = "batch" -> Inserted(batchSize)
                   [] OTHER -> Inserted(Len(portList))
  IN IF displayCount = Undef
       \* execute() rejects an undefined bind parameter before any statement
       THEN [ok |-> FALSE, db |-> SaveRollback(d, d), nextId |-> nid,
             details |-> "Bind parameters must not contain undefined"]
     ELSE IF \E i \in 1..Len(portList) : portList[i] = Null
       \* p.id of a null port throws inside ports.map, after the upsert
       THEN [ok |-> FALSE, db |-> SaveRollback(d, upserted), nextId |-> after,
             details |-> "Cannot read properties of null"]
     ELSE IF fault # "none"
       THEN [ok |-> FALSE, db |-> SaveRollback(d, partial), nextId |-> after,
             details |-> fault]
     ELSE [ok |-> TRUE, db |-> Inserted(Len(portList)), nextId |-> after, details |-> ""]

\* ORDER BY port_number (NULL first)
PortNumberKey(r) == IF r.port_number.t = "num" THEN r.port_number.n ELSE 0 - 1
OrderByPortNumber(rows) ==
  SortSeq(rows, LAMBDA a, b : PortNumberKey(a) < PortNumberKey(b))

\* the port object getOdfEntry makes of a ports row
ReadPort(r) ==
  [id |-> r.port_number, label |-> r.label, status |-> r.status,
   fiberType |-> Str(toText(r.fiberType)), connectorType |-> Str(toText(r.connectorType)),
   destination |-> Str(toText(r.destination)), otdrDistance |-> Str(toText(r.otdrDistance)),
   otdrDistanceValue |-> Str(toText(r.otdrDistanceValue)),
   lastMaintained |-> Str(toText(r.lastMaintained)),
   branchingJoint |-> Str(toText(r.branchingJoint)), cxLocation |-> Str(toText(r.cxLocation)),
   notes |-> Str(toText(r.notes)),
   customFields |-> parseJsonField(r.customFields, Map(<<>>))]

\* getOdfEntry(region, sub): Null or the entry of the selected row odf with
\* its ports (lastSave is not modelled)
getOdfEntry(d, region, sub, odf) ==
  IF SelectEntry(d, region, sub) = {} THEN Null
  ELSE LET IsMine(r) == r.odf_id = odf.id
           portRows == OrderByPortNumber(SelectSeq(d.ports, IsMine))
       IN [region |-> odf.region, sub |-> odf.sub, displayCount |-> odf.displayCount,
           extraFieldDefs |-> parseJsonField(odf.extraFieldDefs, Arr(<<>>)),
           ports |-> [i \in 1..Len(portRows) |-> ReadPort(portRows[i])]]

\* deleteOdfEntry(region, sub): [deleted, db]
deleteOdfEntry(d, region, sub) ==
  [deleted |-> SelectEntry(d, region, sub) # {},
   db |-> DeleteEntries(d, SelectEntry(d, region, sub))]

\* the default entry of (region, sub) under id nid, with its ports
InsertDefaultEntry(d, nid, region, sub, today) ==
  LET defaults == createDefaultPorts(DEFAULT_DISPLAY_COUNT, today) IN
  [d EXCEPT
     !.odf_entries = d.odf_entries \cup
       {[id |-> nid, region |-> region, sub |-> sub,
         displayCount |-> Num(DEFAULT_DISPLAY_COUNT),
         extraFieldDefs |-> JsonStringify(Arr(<<>>))]},
     !.ports = d.ports \o
       [i \in 1..Len(defaults) |-> DefaultPortRow(nid, defaults[i])]]

\* ensureOdfEntryExists resetting an entry it finds to the defaults
ensureOdfEntryExistsResets(d, nid, region, sub, today) ==
  [created |-> SelectEntry(d, region, sub) = {},
   db |-> InsertDefaultEntry(DeleteEntries(d, SelectEntry(d, region, sub)),
                             nid, region, sub, today),
   nextId |-> nid + 1]

\* ensureOdfEntryExists(connection, region, sub): [created, db, nextId]
ensureOdfEntryExists(d, nid, region, sub, today) ==
  IF SelectEntry(d, region, sub) # {}
    THEN [created |-> FALSE, db |-> d, nextId |-> nid]
    ELSE [created |-> TRUE, db |-> InsertDefaultEntry(d, nid, region, sub, today),
          nextId |-> nid + 1]

\* a counter that counts every call
CountedAlways(created, createdCount) == createdCount + 1
\* if (created) createdCount += 1
Counted(created, createdCount) == IF created THEN createdCount + 1 ELSE createdCount

\* the `for (const sub of addedSubs)` loop: [db, nextId, createdCount]
RECURSIVE EnsureAll(_, _, _, _, _, _)
EnsureAll(d, nid, region, subs, today, createdCount) ==
  IF subs = <<>> THEN [db |-> d, nextId |-> nid, createdCount |-> createdCount]
  ELSE LET r == ensureOdfEntryExists(d, nid, region, Head(subs), today) IN
       EnsureAll(r.db, r.nextId, region, Tail(subs), today, Counted(r.created, createdCount))

\* String(sub || '').trim()
ItemText(x) == IF Truthy(x) THEN Trim(JsString(x)) ELSE <<>>

\* [...new Set(list)]: first occurrences, in order
RECURSIVE Unique(_)
Unique(list) ==
  IF list = <<>> THEN <<>>
  ELSE LET init == Unique(SubSeq(list, 1, Len(list) - 1))
           last == list[Len(list)]
       IN IF \E i \in 1..Len(init) : init[i] = last THEN init ELSE Append(init, last)

\* NormalizeItems without the trim
NormalizeItemsNoTrim(items) ==
  LET NonEmpty(x) == x # <<>>
  IN Unique(SelectSeq([i \in 1..Len(items) |->
                         IF Truthy(items[i]) THEN JsString(items[i]) ELSE <<>>], NonEmpty))

\* normalizedItems of POST /api/subregions
NormalizeItems(items) ==
  LET NonEmpty(x) == x # <<>>
  IN Unique(SelectSeq([i \in 1..Len(items) |-> ItemText(items[i])], NonEmpty))

\* SELECT sub FROM subregions WHERE region = ?
CurrentItems(d, region) == {r.sub : r \in {x \in d.subregions : x.region = region}}

\* ------------------------------------------------------ server: requests
sNorth == <<"N","o","r","t","h">>
sSouth == <<"S","o","u","t","h">>
sA == <<"A">>
sB == <<"B">>
sC == <<"C">>

Regions == {sNorth, sSouth}
Subs == {sA, sB, sC}

\* two ports as the client sends them, under the schema ["Distance"]
BodyPorts ==
  normalizeLoadedPorts(Arr(<<RawPortMap, RawPortFlat>>), Num(2), Arr(<<Str(sDistance)>>)).ports

OdfRequest(region, sub, portList, displayCount, extraFieldDefs) ==
  [method |-> "POST", path |-> "/api/odf",
   payload |-> [region |-> region, sub |-> sub, ports |-> portList,
                displayCount |-> displayCount, extraFieldDefs |-> extraFieldDefs]]

\* a port whose customFields is submitted as an array
ArrayFieldsPort == [BodyPorts[1] EXCEPT !.customFields = Arr(<<Str(s10km)>>)]

\* one port more than a batch holds
LongPorts == createDefaultPorts(batchSize + 1, CHOOSE today \in Dates : TRUE)

\* POST /api/odf requests: two well-formed saves, then a body whose ports is
\* not a sequence, one without ports, one without region, one with an empty
\* sub, one with a null port, one without displayCount and one of two batches
OdfRequests ==
  {OdfRequest(Str(sNorth), Str(sA), Arr(BodyPorts), Num(2), Arr(<<Str(sDistance)>>)),
   OdfRequest(Str(sNorth), Str(sB), Arr(<<BodyPorts[1]>>), Num(5), Undef),
   OdfRequest(Str(sNorth), Str(sA), Null, Num(1), Arr(<<>>)),
   OdfRequest(Str(sNorth), Str(sB), Undef, Undef, Undef),
   OdfRequest(Undef, Str(sA), Arr(BodyPorts), Num(2), Arr(<<>>)),
   OdfRequest(Str(sNorth), Str(<<>>), Arr(BodyPorts), Num(2), Arr(<<>>)),
   OdfRequest(Str(sNorth), Str(sA), Arr(<<BodyPorts[1], Null>>), Num(2), Arr(<<>>)),
   OdfRequest(Str(sNorth), Str(sB), Arr(BodyPorts), Undef, Arr(<<>>)),
   OdfRequest(Str(sNorth), Str(sA), Arr(LongPorts), Num(batchSize + 1), Arr(<<>>))}

\* GET /api/odf requests
GetRequest(region, sub) ==
  [method |-> "GET", path |-> "/api/odf", region |-> region, sub |-> sub]
GetRequests ==
  {GetRequest(Str(sNorth), Str(sA)), GetRequest(Str(sNorth), Str(sB)),
   GetRequest(Null, Str(sA))}

\* DELETE /api/odf requests; searchParams.get gives null for a missing parameter
DeleteRequest(region, sub) ==
  [method |-> "DELETE", path |-> "/api/odf", region |-> region, sub |-> sub]
DeleteRequests ==
  {DeleteRequest(Str(sNorth), Str(sA)), DeleteRequest(Str(sNorth), Str(sB)),
   DeleteRequest(Str(sSouth), Str(sA)), DeleteRequest(Null, Str(sA)),
   DeleteRequest(Str(sNorth), Null)}

\* POST /api/subregions requests: items to be trimmed, emptied out and
\* de-duplicated, for two regions, and two malformed bodies
RosterRequest(region, items) ==
  [method |-> "POST", path |-> "/api/subregions", region |-> region, items |-> items]
ItemLists ==
  {<<>>,
   <<Str(sA)>>,
   <<Str(<<" ","A"," ">>), Str(sA)>>,
   <<Str(sA), Str(sB)>>,
   <<Str(sB), Str(<<" ">>), Str(<<"A"," ">>)>>,
   <<Str(sB), Str(sB)>>,
   <<Null, Str(<<" ","B">>)>>,
   <<Str(sB), Str(sC)>>}
RosterRequests ==
  {RosterRequest(Str(sNorth), Arr(items)) : items \in ItemLists}
  \cup {RosterRequest(Str(sSouth), Arr(<<>>)), RosterRequest(Str(sSouth), Arr(<<Str(sA)>>)),
        RosterRequest(Undef, Arr(<<Str(sA)>>)), RosterRequest(Str(sNorth), Undef)}

Requests == OdfRequests \cup DeleteRequests \cup RosterRequests

\* the requests of the read path: the reads, a save whose port carries
\* customFields as an array, a save of map-shaped customFields, a save of
\* one default port without custom fields, a delete and a reconciliation
ReadRequests ==
  GetRequests
    \cup {OdfRequest(Str(sNorth), Str(sB), Arr(<<ArrayFieldsPort>>), Num(1),
                     Arr(<<Str(sDistance)>>)),
          OdfRequest(Str(sNorth), Str(sA), Arr(BodyPorts), Num(2), Arr(<<Str(sDistance)>>)),
          OdfRequest(Str(sNorth), Str(sA),
                     Arr(generateDefaultPorts(1, CHOOSE today \in Dates : TRUE, <<>>)),
                     Num(1), Arr(<<>>)),
          DeleteRequest(Str(sNorth), Str(sB)),
          RosterRequest(Str(sNorth), Arr(<<Str(sA)>>))}

\* ------------------------------------------------------- server: actions
\* the server starts on empty tables; no page is loaded
Init ==
  /\ saved = Null
  /\ AppState = AppStateInitial
  /\ phase = "loading"
  /\ saveRequests = <<>>
  /\ normalized = Undef
  /\ renormalized = Undef
  /\ autoSaveTimer = "none"
  /\ completed = {}
  /\ db = EmptyDb
  /\ nextId = 1
  /\ request = Null
  /\ response = Null
  /\ conn = [c \in Conns |-> IdleConn]

\* a request arrives; the handlers below answer it.  One request is answered
\* at a time: each handler runs from its first statement to its response.
Receive ==
  /\ request = Null
  /\ nextId < MaxId
  /\ request' \in Requests
  /\ response' = Null
  /\ UNCHANGED <<db, nextId>>
  /\ UNCHANGED conn
  /\ UNCHANGED clientVars

\* a request of the read path arrives
ReceiveRead ==
  /\ request = Null
  /\ nextId < MaxId
  /\ request' \in ReadRequests
  /\ response' = Null
  /\ UNCHANGED <<db, nextId>>
  /\ UNCHANGED conn
  /\ UNCHANGED clientVars

IsRequest(method, path) ==
  request # Null /\ request.method = method /\ request.path = path

\* GET /api/odf?region=..&sub=..
GetOdf ==
  /\ IsRequest("GET", "/api/odf")
  /\ IF ~Truthy(request.region) \/ ~Truthy(request.sub)
       THEN response' = [status |-> 400, body |-> [error |-> "Missing region or sub"]]
       ELSE IF SelectEntry(db, request.region.s, request.sub.s) = {}
         THEN response' = [status |-> 404, body |-> [error |-> "Not found"]]
         \* odfRows[0]: without ORDER BY any selected row may come first
         ELSE \E odf \in SelectEntry(db, request.region.s, request.sub.s) :
                response' = [status |-> 200,
                             body |-> getOdfEntry(db, request.region.s, request.sub.s, odf)]
  /\ request' = Null
  /\ UNCHANGED <<db, nextId>>
  /\ UNCHANGED conn
  /\ UNCHANGED clientVars

\* POST /api/odf
PostOdf ==
  /\ IsRequest("POST", "/api/odf")
  /\ LET payload == request.payload IN
     IF ~Truthy(payload.region) \/ ~Truthy(payload.sub) \/ ~IsArray(payload.ports)
       THEN /\ response' = [status |-> 400, body |-> [error |-> "Invalid payload"]]
            /\ UNCHANGED <<db, nextId>>
       ELSE \E fault \in SaveFaults :
            LET result == saveOdfEntry(db, nextId, payload.region.s, payload.sub.s,
                                       payload.ports.a, payload.displayCount,
                                       Or(payload.extraFieldDefs, Arr(<<>>)), fault)
            IN /\ SaveFaultApplies(fault, payload.ports.a)
               /\ db' = result.db
               /\ nextId' = result.nextId
               /\ response' = IF result.ok
                                THEN [status |-> 200, body |-> [ok |-> TRUE]]
                                ELSE ServerError(result.details)
  /\ request' = Null
  /\ UNCHANGED conn
  /\ UNCHANGED clientVars

\* DELETE /api/odf?region=..&sub=..
DeleteOdf ==
  /\ IsRequest("DELETE", "/api/odf")
  /\ IF ~Truthy(request.region) \/ ~Truthy(request.sub)
       THEN /\ response' = [status |-> 400, body |-> [error |-> "Missing region or sub"]]
            /\ db' = db
       ELSE LET result == deleteOdfEntry(db, request.region.s, request.sub.s)
            IN /\ db' = result.db
               /\ response' = [status |-> IF result.deleted THEN 200 ELSE 404,
                               body |-> [ok |-> result.deleted]]
  /\ request' = Null
  /\ UNCHANGED nextId
  /\ UNCHANGED conn
  /\ UNCHANGED clientVars

\* removedSubs of POST /api/subregions
RemovedSubs(currentItems, normalizedItems) ==
  {x \in currentItems : \A i \in 1..Len(normalizedItems) : normalizedItems[i] # x}

\* addedSubs of POST /api/subregions
AddedSubs(currentItems, normalizedItems) ==
  LET NotCurrent(x) == x \notin currentItems IN SelectSeq(normalizedItems, NotCurrent)

\* ReplaceSubregions with a DELETE that has no WHERE clause
ReplaceSubregionsEverywhere(d, region, normalizedItems) ==
  [d EXCEPT !.subregions =
     {[region |-> region, sub |-> normalizedItems[i]] : i \in 1..Len(normalizedItems)}]
\* DELETE FROM subregions WHERE region = ?, then INSERT the normalized items
ReplaceSubregions(d, region, normalizedItems) ==
  [d EXCEPT !.subregions =
     {r \in d.subregions : r.region # region}
       \cup {[region |-> region, sub |-> normalizedItems[i]] : i \in 1..Len(normalizedItems)}]

\* DeleteRemoved with a placeholder list that names only one removed sub
DeleteRemovedFirstOnly(d, region, removedSubs) ==
  IF removedSubs = {} THEN d
  ELSE DeleteEntries(d, {e \in d.odf_entries :
                           e.region = region /\ e.sub = CHOOSE x \in removedSubs : TRUE})

\* DELETE FROM odf_entries WHERE region = ? AND sub IN (removedSubs)
DeleteRemoved(d, region, removedSubs) ==
  DeleteEntries(d, {e \in d.odf_entries : e.region = region /\ e.sub \in removedSubs})

\* the statement of the reconciliation transaction at which the storage
\* throws (a lost connection, a failed write): none, the INSERT INTO
\* subregions, the DELETE FROM odf_entries, a statement of the loop once the
\* first added sub is ensured, or the commit
Faults == {"none", "subregions", "odf_entries", "ensure", "commit"}

\* POST /api/subregions
PostSubregions ==
  /\ IsRequest("POST", "/api/subregions")
  /\ IF ~Truthy(request.region) \/ ~IsArray(request.items)
       THEN /\ response' = [status |-> 400, body |-> [error |-> "Invalid payload"]]
            /\ UNCHANGED <<db, nextId>>
       ELSE \E today \in Dates, fault \in Faults :
            LET region == request.region.s
                normalizedItems == NormalizeItems(request.items.a)
                currentItems == CurrentItems(db, region)
                removedSubs == RemovedSubs(currentItems, normalizedItems)
                addedSubs == AddedSubs(currentItems, normalizedItems)
                cleared == ReplaceSubregions(db, region, <<>>)
                replaced == ReplaceSubregions(db, region, normalizedItems)
                purged == DeleteRemoved(replaced, region, removedSubs)
                ensured == EnsureAll(purged, nextId, region, addedSubs, today, 0)
                \* the uncommitted writes when the fault strikes
                partial ==
                  CASE fault = "subregions" -> [db |-> cleared, nextId |-> nextId]
                    [] fault = "odf_entries" -> [db |-> replaced, nextId |-> nextId]
                    [] fault = "ensure" ->
                         EnsureAll(purged, nextId, region, <<Head(addedSubs)>>, today, 0)
                    [] OTHER -> ensured
            IN /\ fault = "subregions" => Len(normalizedItems) > 0
               /\ fault = "odf_entries" => removedSubs # {}
               /\ fault = "ensure" => Len(addedSubs) > 1
               /\ IF fault = "none"
                    THEN /\ db' = ensured.db
                         /\ nextId' = ensured.nextId
                         /\ response' = [status |-> 200,
                                         body |-> [ok |-> TRUE, added |-> Len(addedSubs),
                                                   removed |-> Cardinality(removedSubs),
                                                   created |-> ensured.createdCount]]
                    \* catch: rollback, rethrow; AUTO_INCREMENT is not rolled back
                    ELSE /\ db' = Rollback(db, partial.db)
                         /\ nextId' = partial.nextId
                         /\ response' = ServerError(fault)
  /\ request' = Null
  /\ UNCHANGED conn
  /\ UNCHANGED clientVars

Next == Receive \/ PostOdf \/ DeleteOdf \/ PostSubregions

Spec == Init /\ [][Next]_vars

\* the server answering reads as well, on the read-path requests
NextRead == ReceiveRead \/ GetOdf \/ PostOdf \/ DeleteOdf \/ PostSubregions

SpecRead == Init /\ [][NextRead]_vars

\* --------------------------------------------------------- server: search
\* a cap one above the documented one
limitPlusOne == 100 + 1
limit == 100

\* texts joined by a separator
RECURSIVE JoinTexts(_, _)
JoinTexts(texts, sep) ==
  IF texts = <<>> THEN <<>>
  ELSE IF Len(texts) = 1 THEN texts[1]
  ELSE texts[1] \o sep \o JoinTexts(Tail(texts), sep)

\* the text JSON.stringify writes for a serialised value (the strings of
\* the samples need no escaping)
RECURSIVE JsonText(_)
JsonText(v) ==
  CASE v.t = "str" -> <<"\"">> \o v.s \o <<"\"">>
    [] v.t = "num" -> IntDigits(v.n)
    [] v.t = "arr" ->
         <<"[">> \o JoinTexts([i \in 1..Len(v.a) |-> JsonText(v.a[i])], <<",">>) \o <<"]">>
    [] v.t = "map" ->
         <<"{">> \o JoinTexts([i \in 1..Len(v.m) |->
                                 <<"\"">> \o v.m[i].k \o <<"\"", ":">> \o JsonText(v.m[i].v)],
                              <<",">>) \o <<"}">>
    [] OTHER -> <<"n","u","l","l">>

\* COALESCE(CAST(column AS CHAR), ''): the characters of a stored value
ColumnText(v) ==
  IF v.t = "json" THEN JsonText(v.v)
  ELSE IF v.t \in {"null", "undef"} THEN <<>>
  ELSE JsString(v)

\* needle occurs in hay
Contains(hay, needle) ==
  \E i \in 0..(Len(hay) - Len(needle)) : SubSeq(hay, i + 1, i + Len(needle)) = needle

\* LOWER(text) LIKE pattern, for a pattern %word% whose word holds no
\* wildcard
Like(text, pattern) == Contains(ToLowerCase(text), SubSeq(pattern, 2, Len(pattern) - 1))

\* the WHERE clause of the odf_entries query
EntryMatches(e, keywordLower) ==
  \/ Like(e.region, keywordLower)
  \/ Like(e.sub, keywordLower)
  \/ Like(ColumnText(e.extraFieldDefs), keywordLower)

\* the WHERE clause of the ports query
PortMatches(r, keywordLower) ==
  \/ Like(ColumnText(r.label), keywordLower)
  \/ Like(ColumnText(r.status), keywordLower)
  \/ Like(ColumnText(r.destination), keywordLower)
  \/ Like(ColumnText(r.notes), keywordLower)
  \/ Like(ColumnText(r.fiberType), keywordLower)
  \/ Like(ColumnText(r.connectorType), keywordLower)
  \/ Like(ColumnText(r.otdrDistance), keywordLower)
  \/ Like(ColumnText(r.otdrDistanceValue), keywordLower)
  \/ Like(ColumnText(r.branchingJoint), keywordLower)
  \/ Like(ColumnText(r.cxLocation), keywordLower)
  \/ Like(ColumnText(r.customFields), keywordLower)

\* LIMIT 100
Limit(rows) == SubSeq(rows, 1, IF Len(rows) < limit THEN Len(rows) ELSE limit)

\* `${item.region}||${item.sub}||${item.portNumber || 0}`
ItemKey(item) ==
  item.region \o <<"|","|">> \o item.sub \o <<"|","|">> \o JsString(Or(item.portNumber, Num(0)))

\* pushUnique(item) on the insertion-ordered resultMap
pushUnique(resultMap, item) ==
  IF \E i \in 1..Len(resultMap) : ItemKey(resultMap[i]) = ItemKey(item)
    THEN resultMap
    ELSE Append(resultMap, item)

\* a loop `for (..) { pushUnique(item); if (resultMap.size >= limit) break; }`
RECURSIVE PushAll(_, _)
PushAll(resultMap, items) ==
  IF items = <<>> THEN resultMap
  ELSE LET pushed == pushUnique(resultMap, Head(items))
       IN IF Len(pushed) >= limit THEN pushed ELSE PushAll(pushed, Tail(items))

\* the item of a metadata match (link, exactLink and jsonPath are not modelled)
EntryItem(odf, trimmedKeyword) ==
  [region |-> odf.region, sub |-> odf.sub,
   storageKey |-> odf.region \o <<"|","|">> \o odf.sub,
   matchedValue |-> odf.region \o <<" ">> \o odf.sub,
   portNumber |-> Null, fieldPath |-> <<>>, keyword |-> trimmedKeyword]

\* the item of a port match
PortItem(row, odf, trimmedKeyword) ==
  [region |-> odf.region, sub |-> odf.sub,
   storageKey |-> odf.region \o <<"|","|">> \o odf.sub,
   matchedValue |->
     Trim(<<"P","o","r","t"," ">> \o JsString(row.port_number) \o <<":"," ">>
            \o JsString(Or(row.label, Str(<<>>))) \o <<" ","|"," ">>
            \o JsString(Or(row.status, Str(<<>>))) \o <<" ","|"," ">>
            \o JsString(Or(row.destination, Str(<<>>)))),
   portNumber |-> row.port_number, fieldPath |-> <<>>, keyword |-> trimmedKeyword]

\* the orders in which a SELECT without ORDER BY may return the entries
EntryOrders(d) ==
  {order \in [1..Cardinality(d.odf_entries) -> d.odf_entries] :
     \A i, j \in 1..Cardinality(d.odf_entries) : order[i] = order[j] => i = j}

\* searchData(keyword), the entries scanned in `order` and the ports in
\* stored order: [keyword, total, items]
searchData(d, keyword, order) ==
  LET trimmedKeyword == Trim(JsString(Or(keyword, Str(<<>>))))
      keywordLower == <<"%">> \o ToLowerCase(trimmedKeyword) \o <<"%">>
      MatchesEntry(e) == EntryMatches(e, keywordLower)
      odfResults == Limit(SelectSeq(order, MatchesEntry))
      MatchesPort(r) == PortMatches(r, keywordLower) /\ \E e \in d.odf_entries : e.id = r.odf_id
      portResults == Limit(SelectSeq(d.ports, MatchesPort))
      fromEntries ==
        PushAll(<<>>, [i \in 1..Len(odfResults) |-> EntryItem(odfResults[i], trimmedKeyword)])
      \* the second loop runs even when the first one stopped at the limit
      fromPorts ==
        PushAll(fromEntries,
                [i \in 1..Len(portResults) |->
                   PortItem(portResults[i],
                            CHOOSE e \in d.odf_entries : e.id = portResults[i].odf_id,
                            trimmedKeyword)])
      items == Limit(fromPorts)
  IN [keyword |-> trimmedKeyword, total |-> Len(items), items |-> items]

sFaulty == <<"f","a","u","l","t","y">>
\* GET /api/search requests: Scenario D's keyword, the same to be trimmed
\* and case-folded, a word of the notes, a word of the schema, a letter of
\* every region and label, the label prefix, and no keyword
SearchRequest(keyword) == [method |-> "GET", path |-> "/api/search", keyword |-> keyword]
Keywords ==
  {Str(sFaulty), Str(<<" ","F","A","U","L","T","Y"," ">>), Str(<<"o","k">>),
   Str(<<"d","i","s","t","a","n","c","e">>), Str(<<"o">>), Str(<<"p","o","r","t">>),
   Str(<<"h","u","b">>), Null}
SearchRequests == {SearchRequest(k) : k \in Keywords}

\* the requests of the search: the searches, a save of two ports under the
\* schema ["Distance"], and rosters that create and remove default entries
SearchSetupRequests ==
  {OdfRequest(Str(sNorth), Str(sA), Arr(BodyPorts), Num(2), Arr(<<Str(sDistance)>>)),
   RosterRequest(Str(sNorth), Arr(<<Str(sA), Str(sB)>>)),
   RosterRequest(Str(sNorth), Arr(<<>>)),
   DeleteRequest(Str(sNorth), Str(sA))}

\* a request of the search arrives
ReceiveSearch ==
  /\ request = Null
  /\ nextId < MaxId
  /\ request' \in SearchRequests \cup SearchSetupRequests
  /\ response' = Null
  /\ UNCHANGED <<db, nextId>>
  /\ UNCHANGED conn
  /\ UNCHANGED clientVars

\* GET /api/search?keyword=..
GetSearch ==
  /\ IsRequest("GET", "/api/search")
  /\ LET keyword == Trim(JsString(Or(request.keyword, Str(<<>>)))) IN
     IF keyword = <<>>
       THEN response' = [status |-> 400, body |-> [error |-> "Missing keyword"]]
       ELSE \E order \in EntryOrders(db) :
              response' = [status |-> 200, body |-> searchData(db, Str(keyword), order)]
  /\ request' = Null
  /\ UNCHANGED <<db, nextId>>
  /\ UNCHANGED conn
  /\ UNCHANGED clientVars

NextSearch == ReceiveSearch \/ GetSearch \/ PostOdf \/ DeleteOdf \/ PostSubregions

SpecSearch == Init /\ [][NextSearch]_vars

\* --------------------------------------------------------- client: editing
MaxSaves == 2        \* the client edits while it has issued fewer saves than this

\* the arguments of DatabaseService.saveState(AppState.ports,
\* AppState.displayCount, AppState.extraFieldDefs), serialised at the call
Snapshot(s) ==
  [ports |-> s.ports, displayCount |-> s.displayCount, extraFieldDefs |-> s.extraFieldDefs]

\* this.ports.findIndex(p => p.id === id), 1-based; 0 when there is none
FindIndex(ports, id) ==
  LET found == {i \in 1..Len(ports) : ports[i].id = id} IN
  IF found = {} THEN 0 ELSE CHOOSE i \in found : \A j \in found : i <= j

\* AppState.getSelectedPort()
getSelectedPort(s) ==
  IF FindIndex(s.ports, s.selectedPortId) = 0 THEN Null
  ELSE s.ports[FindIndex(s.ports, s.selectedPortId)]

\* addPort without the maxPorts test
addPortUnbounded(s, today) ==
  [ok |-> TRUE,
   state |-> [s EXCEPT
     !.ports = Append(s.ports, createDefaultPort(Len(s.ports) + 1, today, s.extraFieldDefs)),
     !.displayCount = Len(s.ports) + 1]]
\* AppState.addPort(): [ok, state]; a save is issued when ok
addPort(s, today) ==
  IF s.displayCount < s.maxPorts
    THEN [ok |-> TRUE,
          state |-> [s EXCEPT
            !.ports = Append(s.ports,
                             createDefaultPort(Len(s.ports) + 1, today, s.extraFieldDefs)),
            !.displayCount = Len(s.ports) + 1]]
    ELSE [ok |-> FALSE, state |-> s]

\* AppState.removePort(): [ok, state]; a save is issued when ok
removePort(s) ==
  IF s.displayCount > 1
    THEN LET popped == SubSeq(s.ports, 1, Len(s.ports) - 1) IN
         [ok |-> TRUE,
          state |-> [s EXCEPT
            !.ports = popped,
            !.displayCount = Len(popped),
            !.selectedPortId = IF s.selectedPortId.t = "num" /\ s.selectedPortId.n > Len(popped)
                                 THEN Num(Len(popped)) ELSE s.selectedPortId]]
    ELSE [ok |-> FALSE, state |-> s]

\* AppState.updatePort(updatedPort, {keepEditing}): [ok, state]; a save is
\* issued when ok
updatePort(s, updatedPort, keepEditing) ==
  LET index == FindIndex(s.ports, updatedPort.id) IN
  IF index # 0
    THEN [ok |-> TRUE,
          state |-> [s EXCEPT !.ports[index] = updatedPort,
                              !.isEditing = IF keepEditing THEN s.isEditing ELSE FALSE]]
    ELSE [ok |-> FALSE, state |-> s]

\* swapPortData that also exchanges the labels
swapPortDataWithLabels(s, targetPortId) ==
  LET currentId == s.selectedPortId
      currentIndex == FindIndex(s.ports, currentId)
      targetIndex == FindIndex(s.ports, targetPortId)
  IN IF ~Truthy(currentId) \/ targetPortId.t # "num" THEN [ok |-> FALSE, state |-> s]
     ELSE IF currentId = targetPortId THEN [ok |-> FALSE, state |-> s]
     ELSE IF currentIndex = 0 \/ targetIndex = 0 THEN [ok |-> FALSE, state |-> s]
     ELSE [ok |-> TRUE,
           state |-> [s EXCEPT
             !.ports[currentIndex] = [s.ports[targetIndex] EXCEPT !.id = s.ports[currentIndex].id],
             !.ports[targetIndex] = [s.ports[currentIndex] EXCEPT !.id = s.ports[targetIndex].id]]]
\* AppState.swapPortData(targetPortId): [ok, state]; Number.isFinite holds of
\* the numbers only
swapPortData(s, targetPortId) ==
  LET currentId == s.selectedPortId
      currentIndex == FindIndex(s.ports, currentId)
      targetIndex == FindIndex(s.ports, targetPortId)
  IN IF ~Truthy(currentId) \/ targetPortId.t # "num" THEN [ok |-> FALSE, state |-> s]
     ELSE IF currentId = targetPortId THEN [ok |-> FALSE, state |-> s]
     ELSE IF currentIndex = 0 \/ targetIndex = 0 THEN [ok |-> FALSE, state |-> s]
     ELSE LET currentPort == s.ports[currentIndex]
              targetPort == s.ports[targetIndex]
          IN [ok |-> TRUE,
              state |-> [s EXCEPT
                !.ports[currentIndex] =
                   [targetPort EXCEPT !.id = currentPort.id, !.label = currentPort.label],
                !.ports[targetIndex] =
                   [currentPort EXCEPT !.id = targetPort.id, !.label = targetPort.label]]]

\* `Field ${n}`
FieldLabel(n) == <<"F","i","e","l","d"," ">> \o IntDigits(n)

\* delete object[key]
MapDelete(m, key) == LET Other(e) == e.k # key IN SelectSeq(m, Other)

\* UIRenderer.addCustomField() once a port is selected: the new AppState
addCustomField(s) ==
  LET defs == Append(s.extraFieldDefs, Str(FieldLabel(Len(s.extraFieldDefs) + 1)))
      newKey == defs[Len(defs)].s
      WithField(p) ==
        LET customFields == normalizeCustomFields(p, Arr(defs)).m IN
        [p EXCEPT !.customFields =
           Map(IF MapHas(customFields, newKey) THEN customFields
               ELSE MapSet(customFields, newKey, Str(<<>>)))]
  IN [s EXCEPT !.extraFieldDefs = defs,
               !.ports = [i \in 1..Len(s.ports) |-> WithField(s.ports[i])]]

\* UIRenderer.removeCustomField() once a port is selected and a definition
\* exists: the new AppState
removeCustomField(s) ==
  LET defs == SubSeq(s.extraFieldDefs, 1, Len(s.extraFieldDefs) - 1)
      removedLabel == s.extraFieldDefs[Len(s.extraFieldDefs)]
      WithoutField(p) ==
        LET customFields == normalizeCustomFields(p, Arr(defs)).m IN
        [p EXCEPT !.customFields =
           Map(IF Truthy(removedLabel) /\ MapHas(customFields, JsString(removedLabel))
                 THEN MapDelete(customFields, JsString(removedLabel))
                 ELSE customFields)]
  IN [s EXCEPT !.extraFieldDefs = defs,
               !.ports = [i \in 1..Len(s.ports) |-> WithoutField(s.ports[i])]]

\* UIRenderer.collectExtraFieldDefsFromDom() for the texts of the
\* .extra-field-label inputs
collectExtraFieldDefsFromDom(labels) ==
  [i \in 1..Len(labels) |->
     Str(IF Trim(labels[i]) # <<>> THEN Trim(labels[i]) ELSE FieldLabel(i))]

\* the rows.forEach loop of collectExtraFieldValuesFromDom, from row i on
RECURSIVE ForEachRow(_, _, _, _)
ForEachRow(labels, values, i, result) ==
  IF i > Len(labels) THEN result
  ELSE ForEachRow(labels, values, i + 1,
         IF Trim(labels[i]) = <<>> THEN result
         ELSE MapSet(result, Trim(labels[i]), Str(values[i])))

\* UIRenderer.collectExtraFieldValuesFromDom()
collectExtraFieldValuesFromDom(labels, values) == Map(ForEachRow(labels, values, 1, <<>>))

\* the newDefs.forEach loop of syncExtraFieldDefsFromDom, from index i on
RECURSIVE Remap(_, _, _, _, _)
Remap(newDefs, oldDefs, existing, i, customFields) ==
  IF i > Len(newDefs) THEN customFields
  ELSE Remap(newDefs, oldDefs, existing, i + 1,
         MapSet(customFields, newDefs[i].s,
                IF i <= Len(oldDefs) /\ Truthy(oldDefs[i])
                     /\ MapHas(existing, JsString(oldDefs[i]))
                  THEN MapGet(existing, JsString(oldDefs[i]))
                  ELSE Str(<<>>)))

\* UIRenderer.syncExtraFieldDefsFromDom(): [defs, state]
syncExtraFieldDefsFromDom(s, labels) ==
  LET newDefs == collectExtraFieldDefsFromDom(labels)
      oldDefs == s.extraFieldDefs
      Remapped(port) ==
        [port EXCEPT !.customFields =
           Map(Remap(newDefs, oldDefs, normalizeCustomFields(port, Arr(oldDefs)).m, 1, <<>>))]
  IN IF newDefs = oldDefs THEN [defs |-> newDefs, state |-> s]
     ELSE [defs |-> newDefs,
           state |-> [s EXCEPT !.extraFieldDefs = newDefs,
                               !.ports = [i \in 1..Len(s.ports) |-> Remapped(s.ports[i])]]]

\* UIRenderer.collectFormValues(port) with the form displayed: the AppState
\* the synchronisation leaves and the updated port
collectFormValues(s, port, dom, today) ==
  LET synced == syncExtraFieldDefsFromDom(s, dom.labels)
      customFields == collectExtraFieldValuesFromDom(dom.labels, dom.values)
  IN [state |-> synced.state,
      updatedPort |->
        [port EXCEPT
           !.status = Str(dom.form.status),
           !.destination = Str(dom.form.destination),
           !.otdrDistance = Str(dom.form.otdrDistance),
           !.fiberType = Str(dom.form.fiberType),
           !.connectorType = Str(dom.form.connectorType),
           !.branchingJoint = Str(dom.form.branchingJoint),
           !.cxLocation = Str(dom.form.cxLocation),
           !.otdrDistanceValue = Str(dom.form.otdrDistanceValue),
           !.lastMaintained = Str(today),
           !.notes = Str(dom.form.notes),
           !.customFields =
              normalizeCustomFields([EmptyObj EXCEPT !.customFields = customFields],
                                    Arr(synced.defs))]]

\* what the nine inputs of the form can hold
FormInput(status, destination, notes) ==
  [status |-> status, destination |-> destination, otdrDistance |-> <<"1","2">>,
   fiberType |-> <<"O","S","2">>, connectorType |-> <<"L","C">>,
   branchingJoint |-> <<>>, cxLocation |-> <<>>, otdrDistanceValue |-> <<>>,
   notes |-> notes]
FormInputs ==
  {FormInput(<<"A","C","T","I","V","E">>, <<"h","u","b">>, <<>>),
   FormInput(<<"F","A","U","L","T","Y">>, <<>>, <<"c","u","t">>)}

\* the texts the label inputs can hold once the rows of the definitions
\* defs are displayed: as rendered, the first label renamed, every label
\* renamed to one name, the first label blanked
LabelInputs(defs) ==
  LET rendered == [i \in 1..Len(defs) |-> JsString(Or(defs[i], Str(<<>>)))] IN
  {rendered,
   [i \in 1..Len(defs) |-> IF i = 1 THEN <<" ">> \o sOwner ELSE rendered[i]],
   [i \in 1..Len(defs) |-> sOwner],
   [i \in 1..Len(defs) |-> IF i = 1 THEN <<" ">> ELSE rendered[i]]}

\* the texts of the value inputs of n rows: empty when no note is typed,
\* else a text that names its row
ValueInputs(n, form) ==
  [i \in 1..n |-> IF form.notes = <<>> THEN <<>> ELSE <<"7","k","m">> \o IntDigits(i)]

\* the contents of the displayed form
DomInputs(s) ==
  {[form |-> f, labels |-> l, values |-> ValueInputs(Len(s.extraFieldDefs), f)] :
     f \in FormInputs, l \in LabelInputs(s.extraFieldDefs)}

\* the ports of the grid that are clicked: the first and the last
ClickedPorts(s) == {i \in 1..Len(s.ports) : i = 1 \/ i = Len(s.ports)}

\* the texts typed into the switch box
SwitchInputs == {<<>>, <<"0">>, <<"1">>, <<"2">>, <<"9","9","9">>}

\* Number.parseInt(text, 10) for the texts of a number input
ParseInt(text) == IF AllDigits(text) THEN Num(DigitsVal(text)) ELSE Undef

\* a save was issued for the state s when `issued`
Issue(issued, s) ==
  saveRequests' = IF issued THEN Append(saveRequests, Snapshot(s)) ELSE saveRequests

\* the client may go on editing
Editing == phase = "ready" /\ Len(saveRequests) < MaxSaves

\* a click on port k of the grid
SelectPort ==
  /\ phase = "ready"
  /\ \E k \in ClickedPorts(AppState) :
       AppState' = [AppState EXCEPT !.selectedPortId = AppState.ports[k].id,
                                    !.isEditing = FALSE]
  /\ UNCHANGED <<saved, phase, saveRequests, normalized, renormalized, autoSaveTimer, completed>>
  /\ UNCHANGED serverVars

\* a click on editBtn, which is displayed for a selected port in view mode
EditClick ==
  /\ phase = "ready"
  /\ getSelectedPort(AppState) # Null
  /\ ~AppState.isEditing
  /\ AppState' = [AppState EXCEPT !.isEditing = TRUE]
  /\ UNCHANGED <<saved, phase, saveRequests, normalized, renormalized, autoSaveTimer, completed>>
  /\ UNCHANGED serverVars

\* a click on cancelBtn, which is displayed in edit mode
CancelClick ==
  /\ phase = "ready"
  /\ getSelectedPort(AppState) # Null
  /\ AppState.isEditing
  /\ AppState' = [AppState EXCEPT !.isEditing = FALSE]
  /\ UNCHANGED <<saved, phase, saveRequests, normalized, renormalized, autoSaveTimer, completed>>
  /\ UNCHANGED serverVars

\* a click on addPort
AddPortClick ==
  /\ Editing
  /\ \E today \in Dates :
       /\ AppState' = addPort(AppState, today).state
       /\ Issue(addPort(AppState, today).ok, AppState')
  /\ UNCHANGED <<saved, phase, normalized, renormalized, autoSaveTimer, completed>>
  /\ UNCHANGED serverVars

\* a click on removePort
RemovePortClick ==
  /\ Editing
  /\ AppState' = removePort(AppState).state
  /\ Issue(removePort(AppState).ok, AppState')
  /\ UNCHANGED <<saved, phase, normalized, renormalized, autoSaveTimer, completed>>
  /\ UNCHANGED serverVars

\* a click on switchSaveBtn, which is displayed for a selected port in view
\* mode, with a text in the switch box
SwitchSaveClick ==
  /\ Editing
  /\ getSelectedPort(AppState) # Null
  /\ ~AppState.isEditing
  /\ \E text \in SwitchInputs :
       LET targetId == ParseInt(text) IN
       IF \/ targetId.t # "num"
          \/ targetId.n < 1 \/ targetId.n > AppState.displayCount
          \/ targetId = AppState.selectedPortId
         THEN UNCHANGED <<AppState, saveRequests>>
         ELSE /\ AppState' = swapPortData(AppState, targetId).state
              /\ Issue(swapPortData(AppState, targetId).ok, AppState')
  /\ UNCHANGED <<saved, phase, normalized, renormalized, autoSaveTimer, completed>>
  /\ UNCHANGED serverVars

\* a click on addFieldBtn
AddFieldClick ==
  /\ Editing
  /\ IF AppState.isEditing /\ getSelectedPort(AppState) # Null
       THEN /\ AppState' = addCustomField(AppState)
            /\ Issue(TRUE, AppState')
       ELSE UNCHANGED <<AppState, saveRequests>>
  /\ UNCHANGED <<saved, phase, normalized, renormalized, autoSaveTimer, completed>>
  /\ UNCHANGED serverVars

\* a click on removeFieldBtn
RemoveFieldClick ==
  /\ Editing
  /\ IF AppState.isEditing /\ getSelectedPort(AppState) # Null
          /\ AppState.extraFieldDefs # <<>>
       THEN /\ AppState' = removeCustomField(AppState)
            /\ Issue(TRUE, AppState')
       ELSE UNCHANGED <<AppState, saveRequests>>
  /\ UNCHANGED <<saved, phase, normalized, renormalized, autoSaveTimer, completed>>
  /\ UNCHANGED serverVars

\* a click on saveChangesBtn, which is displayed in edit mode:
\* UIRenderer.savePortChanges
SavePortChanges ==
  /\ Editing
  /\ AppState.isEditing
  /\ getSelectedPort(AppState) # Null
  /\ \E dom \in DomInputs(AppState), today \in Dates :
       LET collected == collectFormValues(AppState, getSelectedPort(AppState), dom, today)
           updated == updatePort(collected.state, collected.updatedPort, FALSE)
       IN /\ AppState' = updated.state
          /\ Issue(updated.ok, AppState')
  /\ UNCHANGED <<saved, phase, normalized, renormalized, autoSaveTimer, completed>>
  /\ UNCHANGED serverVars

\* an input or change event of the displayed form (re)starts the timer
InputChange ==
  /\ Editing
  /\ AppState.isEditing
  /\ getSelectedPort(AppState) # Null
  /\ autoSaveTimer' = "pending"
  /\ UNCHANGED <<saved, AppState, phase, saveRequests, normalized, renormalized, completed>>
  /\ UNCHANGED serverVars

\* the timer fires.  In view mode the page has no label input and no
\* statusInput: the definitions are synchronised to the empty list, then
\* reading statusInput's value throws and nothing is saved.
AutoSaveFire ==
  /\ Editing
  /\ autoSaveTimer = "pending"
  /\ autoSaveTimer' = "none"
  /\ IF getSelectedPort(AppState) = Null THEN UNCHANGED <<AppState, saveRequests>>
     ELSE IF ~AppState.isEditing
       THEN /\ AppState' = syncExtraFieldDefsFromDom(AppState, <<>>).state
            /\ UNCHANGED saveRequests
     ELSE \E dom \in DomInputs(AppState), today \in Dates :
            LET collected == collectFormValues(AppState, getSelectedPort(AppState), dom, today)
                updated == updatePort(collected.state, collected.updatedPort, TRUE)
            IN /\ AppState' = updated.state
               /\ Issue(updated.ok, AppState')
  /\ UNCHANGED <<saved, phase, normalized, renormalized, completed>>
  /\ UNCHANGED serverVars

\* what loadState resolves to on the edited page: two raw ports under one
\* definition, and the same with a stored count of null
EditEntries ==
  {[ports |-> Arr(<<RawPortMap, RawPortFlat>>), displayCount |-> Num(5),
    extraFieldDefs |-> Arr(<<Str(sDistance)>>)],
   [ports |-> Arr(<<RawPortMap, RawPortFlat>>), displayCount |-> Null,
    extraFieldDefs |-> Arr(<<Str(sDistance)>>)]}

\* a stored port whose texts are all empty
BlankPort ==
  PortObj(Undef, Undef, Str(sINACTIVE), Str(<<>>), Str(<<>>), Str(<<>>), Str(<<>>),
          Str(<<>>), Str(<<>>), Str(<<>>), Str(<<>>), Str(<<>>), Map(<<>>), Undef, Undef)

\* what loadState resolves to on the pages whose port list is edited: the
\* above, nothing, and a stored entry one port short of maxPorts
PortEntries ==
  EditEntries \cup
  {Null,
   [ports |-> Arr([i \in 1..(AppStateInitial.maxPorts - 1) |-> BlankPort]),
    displayCount |-> Num(AppStateInitial.maxPorts - 1), extraFieldDefs |-> Arr(<<>>)]}

InitEdit ==
  /\ saved \in EditEntries
  /\ AppState = AppStateInitial
  /\ phase = "loading"
  /\ saveRequests = <<>>
  /\ normalized = Undef
  /\ renormalized = Undef
  /\ autoSaveTimer = "none"
  /\ completed = {}
  /\ db = EmptyDb
  /\ nextId = 1
  /\ request = Null
  /\ response = Null
  /\ conn = [c \in Conns |-> IdleConn]

NextEdit ==
  \/ AppInit
  \/ SelectPort
  \/ EditClick
  \/ CancelClick
  \/ AddPortClick
  \/ RemovePortClick
  \/ SwitchSaveClick
  \/ AddFieldClick
  \/ RemoveFieldClick
  \/ SavePortChanges
  \/ InputChange
  \/ AutoSaveFire

SpecEdit == InitEdit /\ [][NextEdit]_vars

InitPorts ==
  /\ saved \in PortEntries
  /\ AppState = AppStateInitial
  /\ phase = "loading"
  /\ saveRequests = <<>>
  /\ normalized = Undef
  /\ renormalized = Undef
  /\ autoSaveTimer = "none"
  /\ completed = {}
  /\ db = EmptyDb
  /\ nextId = 1
  /\ request = Null
  /\ response = Null
  /\ conn = [c \in Conns |-> IdleConn]

\* the edits of the port list, for the port selected when the page opens
NextPorts ==
  \/ AppInit
  \/ EditClick
  \/ AddPortClick
  \/ RemovePortClick
  \/ SwitchSaveClick
  \/ SavePortChanges

SpecPorts == InitPorts /\ [][NextPorts]_vars

\* ----------------------------------------------------- client: saving
\* ODFContext for the page /odf.html?region=North&sub=A
ODFContext == [region |-> sNorth, sub |-> sA, initialPortId |-> Null]

\* the body of the POST /api/odf that saveStateWithResult sends for a
\* snapshot
SaveBody(snapshot) ==
  [region |-> Str(ODFContext.region), sub |-> Str(ODFContext.sub),
   ports |-> Arr(snapshot.ports), displayCount |-> Num(snapshot.displayCount),
   extraFieldDefs |-> Arr(snapshot.extraFieldDefs)]

\* the store in which (North, A) holds two ports under the schema ["Distance"]
StoredDb ==
  saveOdfEntry(EmptyDb, 1, sNorth, sA, BodyPorts, Num(2), Arr(<<Str(sDistance)>>), "none").db

\* what loadState resolves to for the entry of the page: the body of the
\* GET /api/odf answer (its ports have neither legacy container)
LoadedEntry(d) ==
  LET got == getOdfEntry(d, ODFContext.region, ODFContext.sub,
                         CHOOSE e \in SelectEntry(d, ODFContext.region, ODFContext.sub) : TRUE)
      Loaded(r) ==
        PortObj(r.id, r.label, r.status, r.fiberType, r.connectorType, r.destination,
                r.otdrDistance, r.otdrDistanceValue, r.lastMaintained, r.branchingJoint,
                r.cxLocation, r.notes, r.customFields, Undef, Undef)
  IN [ports |-> Arr([i \in 1..Len(got.ports) |-> Loaded(got.ports[i])]),
      displayCount |-> got.displayCount, extraFieldDefs |-> got.extraFieldDefs]

InitSave ==
  /\ saved = LoadedEntry(StoredDb)
  /\ AppState = AppStateInitial
  /\ phase = "loading"
  /\ saveRequests = <<>>
  /\ normalized = Undef
  /\ renormalized = Undef
  /\ autoSaveTimer = "none"
  /\ completed = {}
  /\ db = StoredDb
  /\ nextId = 2
  /\ request = Null
  /\ response = Null
  /\ conn = [c \in Conns |-> IdleConn]

\* the server stores one of the saves in flight and answers 200; the
\* requests of the saves that were not awaited reach it in any order
CompleteSave ==
  /\ \E i \in (1..Len(saveRequests)) \ completed :
       LET body == SaveBody(saveRequests[i])
           result == saveOdfEntry(db, nextId, body.region.s, body.sub.s, body.ports.a,
                                  body.displayCount, Or(body.extraFieldDefs, Arr(<<>>)),
                                  "none")
       IN /\ result.ok
          /\ db' = result.db
          /\ nextId' = result.nextId
          /\ response' = [status |-> 200, body |-> [ok |-> TRUE]]
          /\ completed' = completed \cup {i}
  /\ request' = Null
  /\ UNCHANGED conn
  /\ UNCHANGED <<saved, AppState, phase, saveRequests, normalized, renormalized, autoSaveTimer>>

NextSave ==
  \/ AppInit
  \/ EditClick
  \/ AddPortClick
  \/ RemovePortClick
  \/ SavePortChanges
  \/ CompleteSave

SpecSave == InitSave /\ [][NextSave]_vars

\* ---------------------------------------- server: interleaved transactions
\* Two pool connections run the transactions of saveOdfEntry and of POST
\* /api/subregions one statement at a time.  The store is InnoDB's: db holds
\* the newest row versions; a plain SELECT is a consistent read that does
\* not see rows another transaction inserted and has not committed, and
\* reads as of the transaction's first SELECT; an UPDATE takes the row's
\* exclusive lock, or waits for it, and holds it until commit.  The requests
\* here are well-formed and their statements do not fail.
MaxTx == 2           \* transactions a connection begins

SaveA1 == OdfRequest(Str(sNorth), Str(sA), Arr(BodyPorts), Num(2), Arr(<<Str(sDistance)>>))
SaveA2 == OdfRequest(Str(sNorth), Str(sA), Arr(<<BodyPorts[2]>>), Num(1), Arr(<<>>))
RosterA == RosterRequest(Str(sNorth), Arr(<<Str(sA)>>))

\* the requests a connection may serve: the roster statements of two
\* reconciliations would contend for locks on table subregions, so only
\* connection 2 reconciles
TxRequests(c) == {SaveA1, SaveA2} \cup (IF c = 2 THEN {RosterA} ELSE {})

InitTx ==
  /\ saved = Null
  /\ AppState = AppStateInitial
  /\ phase = "loading"
  /\ saveRequests = <<>>
  /\ normalized = Undef
  /\ renormalized = Undef
  /\ autoSaveTimer = "none"
  /\ completed = {}
  /\ db = EmptyDb
  /\ nextId = 1
  /\ request = Null
  /\ response = Null
  /\ conn = [c \in Conns |-> IdleConn]

\* entry ids inserted by another connection's open transaction
Uncommitted(c) == UNION {conn[o].mine : o \in Conns \ {c}}
\* the entry ids a consistent read of connection c sees now
VisibleIds(c) == {e.id : e \in db.odf_entries} \ Uncommitted(c)

\* a row lock that is always granted at once
CanLockAlways(c, id) == TRUE
\* the exclusive lock of entry row id can be granted to connection c
CanLock(c, id) == \A o \in Conns \ {c} : id \notin conn[o].locked \cup conn[o].mine

\* the handler reads the body and begins a transaction
TxBegin(c) ==
  /\ conn[c].pc = "idle"
  /\ conn[c].begun < MaxTx
  /\ \E req \in TxRequests(c) :
       conn' = [conn EXCEPT ![c] =
                  [IdleConn EXCEPT !.pc = IF req.path = "/api/odf" THEN "select" ELSE "current",
                                   !.req = req,
                                   !.begun = conn[c].begun + 1]]
  /\ UNCHANGED <<db, nextId, request, response>>
  /\ UNCHANGED clientVars

\* saveOdfEntry: SELECT id FROM odf_entries WHERE region = ? AND sub = ?
SaveSelect(c) ==
  /\ conn[c].pc = "select"
  /\ LET payload == conn[c].req.payload
         existing == {e.id : e \in SelectEntry(db, payload.region.s, payload.sub.s)}
                       \cap VisibleIds(c)
     IN conn' = [conn EXCEPT ![c].existing = existing,
                             ![c].pc = IF existing # {} THEN "update" ELSE "insert"]
  /\ UNCHANGED <<db, nextId, request, response>>
  /\ UNCHANGED clientVars

\* the odf_entries row saveOdfEntry writes under id
SaveRow(payload, id) ==
  [id |-> id, region |-> payload.region.s, sub |-> payload.sub.s,
   displayCount |-> payload.displayCount,
   extraFieldDefs |-> JsonStringify(Or(payload.extraFieldDefs, Arr(<<>>)))]

\* saveOdfEntry: UPDATE odf_entries ... WHERE id = existing[0].id; without
\* ORDER BY any of the selected rows may come first
SaveUpdate(c) ==
  /\ conn[c].pc = "update"
  /\ \E id \in conn[c].existing :
       /\ CanLock(c, id)
       /\ db' = [db EXCEPT !.odf_entries =
                   {IF e.id = id THEN SaveRow(conn[c].req.payload, id) ELSE e :
                      e \in db.odf_entries}]
       /\ conn' = [conn EXCEPT ![c].odfId = id,
                               ![c].locked = conn[c].locked \cup {id},
                               ![c].pc = "delete"]
  /\ UNCHANGED <<nextId, request, response>>
  /\ UNCHANGED clientVars

\* saveOdfEntry: DELETE FROM ports WHERE odf_id = ?
SaveDeletePorts(c) ==
  /\ conn[c].pc = "delete"
  /\ db' = [db EXCEPT !.ports = DeletePorts(db.ports, {conn[c].odfId})]
  /\ conn' = [conn EXCEPT ![c].pc = "ports"]
  /\ UNCHANGED <<nextId, request, response>>
  /\ UNCHANGED clientVars

\* saveOdfEntry: INSERT INTO odf_entries; odfId = result.insertId
SaveInsert(c) ==
  /\ conn[c].pc = "insert"
  /\ db' = [db EXCEPT !.odf_entries =
              db.odf_entries \cup {SaveRow(conn[c].req.payload, nextId)}]
  /\ nextId' = nextId + 1
  /\ conn' = [conn EXCEPT ![c].odfId = nextId,
                          ![c].mine = conn[c].mine \cup {nextId},
                          ![c].pc = "ports"]
  /\ UNCHANGED <<request, response>>
  /\ UNCHANGED clientVars

\* saveOdfEntry: the batch INSERT INTO ports (the lists here fit one batch)
SaveInsertPorts(c) ==
  /\ conn[c].pc = "ports"
  /\ LET portList == conn[c].req.payload.ports.a
     IN db' = [db EXCEPT !.ports = db.ports \o
                 [i \in 1..Len(portList) |-> SavedPortRow(conn[c].odfId, portList[i])]]
  /\ conn' = [conn EXCEPT ![c].pc = "commit"]
  /\ UNCHANGED <<nextId, request, response>>
  /\ UNCHANGED clientVars

\* POST /api/subregions: SELECT sub FROM subregions WHERE region = ?, the
\* first read of the transaction, and the two differences.  The rosters
\* here only grow, so removedSubs is empty and the DELETE FROM odf_entries
\* is skipped.
RosterSelect(c) ==
  /\ conn[c].pc = "current"
  /\ LET region == conn[c].req.region.s
         normalizedItems == NormalizeItems(conn[c].req.items.a)
     IN conn' = [conn EXCEPT ![c].snap = VisibleIds(c),
                             ![c].added = AddedSubs(CurrentItems(db, region), normalizedItems),
                             ![c].pc = "unroster"]
  /\ UNCHANGED <<db, nextId, request, response>>
  /\ UNCHANGED clientVars

\* POST /api/subregions: DELETE FROM subregions WHERE region = ?
RosterDelete(c) ==
  /\ conn[c].pc = "unroster"
  /\ db' = ReplaceSubregions(db, conn[c].req.region.s, <<>>)
  /\ conn' = [conn EXCEPT ![c].pc = "roster"]
  /\ UNCHANGED <<nextId, request, response>>
  /\ UNCHANGED clientVars

\* POST /api/subregions: INSERT INTO subregions (region, sub) VALUES ?
RosterInsert(c) ==
  /\ conn[c].pc = "roster"
  /\ db' = ReplaceSubregions(db, conn[c].req.region.s, NormalizeItems(conn[c].req.items.a))
  /\ conn' = [conn EXCEPT ![c].pc = IF conn[c].added = <<>> THEN "commit" ELSE "ensure"]
  /\ UNCHANGED <<nextId, request, response>>
  /\ UNCHANGED clientVars

\* ensureOdfEntryExists: SELECT id FROM odf_entries WHERE region = ? AND
\* sub = ?, read as of the transaction's first SELECT
EnsureSelect(c) ==
  /\ conn[c].pc = "ensure"
  /\ LET existing == {e.id : e \in SelectEntry(db, conn[c].req.region.s, Head(conn[c].added))}
                       \cap (conn[c].snap \cup conn[c].mine)
         rest == Tail(conn[c].added)
     IN conn' = [conn EXCEPT
                   ![c].existing = existing,
                   ![c].added = IF existing # {} THEN rest ELSE conn[c].added,
                   ![c].pc = IF existing = {} THEN "default"
                             ELSE IF rest = <<>> THEN "commit" ELSE "ensure"]
  /\ UNCHANGED <<db, nextId, request, response>>
  /\ UNCHANGED clientVars

\* ensureOdfEntryExists: the INSERT INTO odf_entries and the INSERT INTO
\* ports of the default entry
EnsureInsert(c) ==
  /\ conn[c].pc = "default"
  /\ \E today \in Dates :
       db' = InsertDefaultEntry(db, nextId, conn[c].req.region.s, Head(conn[c].added), today)
  /\ nextId' = nextId + 1
  /\ conn' = [conn EXCEPT ![c].mine = conn[c].mine \cup {nextId},
                          ![c].createdCount = Counted(TRUE, conn[c].createdCount),
                          ![c].added = Tail(conn[c].added),
                          ![c].pc = IF Tail(conn[c].added) = <<>> THEN "commit" ELSE "ensure"]
  /\ UNCHANGED <<request, response>>
  /\ UNCHANGED clientVars

\* connection.commit(): the rows become visible, the locks are released and
\* the handler answers 200
TxCommit(c) ==
  /\ conn[c].pc = "commit"
  /\ conn' = [conn EXCEPT ![c] =
                [IdleConn EXCEPT !.begun = conn[c].begun,
                                 !.req = conn[c].req,
                                 !.odfId = conn[c].odfId,
                                 !.overlapped =
                                   {[c |-> o, n |-> conn[o].begun] :
                                      o \in {x \in Conns \ {c} : conn[x].pc # "idle"}},
                                 !.response = [status |-> 200, body |-> [ok |-> TRUE]]]]
  /\ UNCHANGED <<db, nextId, request, response>>
  /\ UNCHANGED clientVars

NextTx ==
  \E c \in Conns :
    \/ TxBegin(c)
    \/ SaveSelect(c)
    \/ SaveUpdate(c)
    \/ SaveDeletePorts(c)
    \/ SaveInsert(c)
    \/ SaveInsertPorts(c)
    \/ RosterSelect(c)
    \/ RosterDelete(c)
    \/ RosterInsert(c)
    \/ EnsureSelect(c)
    \/ EnsureInsert(c)
    \/ TxCommit(c)

SpecTx == InitTx /\ [][NextTx]_vars

\* ------------------------------------------------- claims: normalizer
\* the raw entry handed to normalizeLoadedPorts has a ports sequence
RawIsSequence == saved # Null /\ IsArray(saved.ports)

\* C1: normalizing the output of normalizeLoadedPorts again, with the same
\* extraFieldDefs, yields the same ports and the same displayCount.
NormalizeIdempotent ==
  renormalized # Undef =>
    /\ renormalized.ports = normalized.ports
    /\ renormalized.displayCount = normalized.displayCount
\* a second pass over an output of two ports that differs from the raw input
NormalizeIdempotentWitness ==
  /\ renormalized # Undef
  /\ RawIsSequence
  /\ Len(normalized.ports) = 2
  /\ normalized.ports # saved.ports.a
  /\ \E i \in 1..2 : normalized.ports[i].customFields.m # <<>>

\* C2: a numeric displayCount smaller than the length of the ports sequence
\* is ignored: every port is kept and displayCount is the original length.
CountNeverShrinks ==
  (/\ normalized # Undef
   /\ RawIsSequence
   /\ JsNumber(saved.displayCount).fin
   /\ JsNumber(saved.displayCount).n >= 0
   /\ JsNumber(saved.displayCount).n < Len(saved.ports.a))
  => /\ Len(normalized.ports) = Len(saved.ports.a)
     /\ normalized.displayCount = Len(saved.ports.a)

\* C3: the entry returned by normalization has displayCount equal to the
\* length of its ports, for the direct call and for the entry AppState.init
\* installs.
ShapeInvariant ==
  /\ normalized # Undef => normalized.displayCount = Len(normalized.ports)
  /\ phase = "ready" => AppState.displayCount = Len(AppState.ports)
\* a non-numeric count, and a numeric count above the real length
ShapeInvariantWitness ==
  /\ normalized # Undef
  /\ RawIsSequence
  /\ ~JsNumber(saved.displayCount).fin
  /\ Len(normalized.ports) = 2
ShapeInvariantWitnessLarger ==
  /\ phase = "ready"
  /\ SavedUsable(saved)
  /\ JsNumber(saved.displayCount).fin
  /\ JsNumber(saved.displayCount).n > Len(saved.ports.a)
  /\ Len(AppState.ports) = Len(saved.ports.a)

\* "PORT-" followed by n zero-padded to three digits, for n below 1000
ThreeDigitLabel(n) ==
  <<"P","O","R","T","-", DigitChars[(n \div 100) + 1],
    DigitChars[((n \div 10) % 10) + 1], DigitChars[(n % 10) + 1]>>
SequentialPorts(portList) ==
  \A i \in 1..Len(portList) :
    /\ portList[i].id = Num(i)
    /\ portList[i].label = Str(ThreeDigitLabel(i))

\* C4: in a normalized entry the port at 0-based position i has id i+1 and
\* label PORT-<i+1 padded to 3 digits>, whatever id and label it carried.
SequentialIdentity ==
  /\ normalized # Undef => SequentialPorts(normalized.ports)
  /\ phase = "ready" => SequentialPorts(AppState.ports)
\* a raw port with a junk id and label in second position was rewritten
SequentialIdentityWitness ==
  /\ normalized # Undef
  /\ RawIsSequence
  /\ Len(normalized.ports) = 2
  /\ saved.ports.a[2] = RawPortMap
  /\ saved.ports.a[2].id = Num(7)
  /\ normalized.ports[2].id = Num(2)

\* C5: every port's customFields key sequence equals the entry's
\* extraFieldDefs, element for element, for every accepted definitions list.
SchemaClosure ==
  (phase = "ready" /\ SavedUsable(saved)) =>
    \A i \in 1..Len(AppState.ports) :
      MapKeys(AppState.ports[i].customFields.m) =
        [j \in 1..Len(AppState.extraFieldDefs) |-> AppState.extraFieldDefs[j].s]

\* the claim's priority chain for the definition at 1-based position j of a
\* raw port (Null when the port has no such container)
ChainMap(port) ==
  IF port # Null /\ port.customFields.t = "map" THEN port.customFields.m ELSE <<>>
ChainFlat(port) ==
  IF port # Null /\ port.extraFieldValues.t = "arr" THEN port.extraFieldValues.a ELSE <<>>
ChainRecords(port) ==
  IF port # Null /\ port.extraFields.t = "arr" THEN port.extraFields.a ELSE <<>>
ChainValue(port, key, j) ==
  IF \E x \in 1..Len(ChainMap(port)) : ChainMap(port)[x].k = key
    THEN ChainMap(port)[CHOOSE x \in 1..Len(ChainMap(port)) : ChainMap(port)[x].k = key].v
  ELSE IF j <= Len(ChainFlat(port)) THEN ChainFlat(port)[j]
  ELSE IF j <= Len(ChainRecords(port)) /\ ChainRecords(port)[j] # Null
    THEN ChainRecords(port)[j].m[1].v
  ELSE Str(<<>>)

\* C6: each label of fieldDefs resolves to the map value under the trimmed
\* label, else the flat legacy value at the label's index, else the legacy
\* record's value at that index, else the empty string; a label that occurs
\* again later is resolved at its last occurrence.
ResolutionPriority ==
  (normalized # Undef /\ RawIsSequence /\ IsArray(saved.extraFieldDefs)) =>
    LET defs == saved.extraFieldDefs.a
        kept == KeptPorts(saved.ports, saved.displayCount)
    IN \A i \in 1..Len(normalized.ports) : \A j \in 1..Len(defs) :
         LET key == Trim(defs[j].s) IN
         (key # <<>> /\ \A j2 \in (j + 1)..Len(defs) : Trim(defs[j2].s) # key)
           => /\ MapHas(normalized.ports[i].customFields.m, key)
              /\ MapGet(normalized.ports[i].customFields.m, key) = ChainValue(kept[i], key, j)
\* the flat legacy sequence ["10km"] under ["Distance"] gives {Distance: 10km}
ScenarioA ==
  (/\ normalized # Undef
   /\ RawIsSequence
   /\ saved.extraFieldDefs = Arr(<<Str(sDistance)>>)
   /\ Len(normalized.ports) >= 1
   /\ saved.ports.a[1] = RawPortFlat)
  => normalized.ports[1].customFields = Map(<<[k |-> sDistance, v |-> Str(s10km)]>>)
ResolutionPriorityAll == ResolutionPriority /\ ScenarioA
\* every link of the chain decided some value: the map (Owner), the flat
\* sequence (Distance at index 0) in one port, the record sequence in another
ResolutionPriorityWitness ==
  /\ normalized # Undef
  /\ RawIsSequence
  /\ saved.extraFieldDefs = Arr(<<Str(sDistance), Str(sOwner)>>)
  /\ saved.ports.a = <<RawPortMixed, RawPortFlat>>
  /\ Len(normalized.ports) = 2
  /\ normalized.ports[1].customFields =
       Map(<<[k |-> sDistance, v |-> Str(<<"1","k","m">>)],
             [k |-> sOwner, v |-> Str(<<"b","o","b">>)]>>)
  /\ normalized.ports[2].customFields =
       Map(<<[k |-> sDistance, v |-> Str(s10km)], [k |-> sOwner, v |-> Str(<<>>)]>>)

\* C7 (normalizer half): a raw entry whose ports field is not a sequence
\* normalizes to an explicit invalid (null) result.
InvalidWhenNotSequence ==
  (normalized # Undef /\ ~RawIsSequence) => normalized = Null

\* C7 (server half): a save whose ports field is not a sequence is answered
\* 400 and leaves every table as it was.
RejectsInvalidSave ==
  [][(IsRequest("POST", "/api/odf") /\ ~IsArray(request.payload.ports) /\ response' # Null)
       => (response'.status = 400 /\ db' = db)]_vars

\* ----------------------------------------------------- claims: roster
\* the submitted items trimmed, without empties, as a set
DesiredSubs(items) ==
  {t \in {IF Truthy(items[i]) THEN Trim(JsString(items[i])) ELSE <<>> : i \in 1..Len(items)} :
     t # <<>>}
\* the stored roster of a region
RosterOf(d, region) == {r.sub : r \in {x \in d.subregions : x.region = region}}
SeqRange(q) == {q[i] : i \in 1..Len(q)}
\* this step is a reconciliation that committed
Reconciled ==
  /\ IsRequest("POST", "/api/subregions")
  /\ response' # Null
  /\ response'.status = 200
IsRosterAnswer(r) == r # Null /\ r.status = 200 /\ "added" \in DOMAIN r.body

\* C8: with desiredSubs the trimmed, non-empty, de-duplicated items, added is
\* desiredSubs minus currentSubs, removed is currentSubs minus desiredSubs,
\* the two are disjoint, and the stored roster of the region afterwards is
\* desiredSubs.
RosterDiffCorrect ==
  [][Reconciled =>
       LET region == request.region.s
           desired == DesiredSubs(request.items.a)
           current == RosterOf(db, region)
           normalizedItems == NormalizeItems(request.items.a)
           added == AddedSubs(CurrentItems(db, region), normalizedItems)
           removed == RemovedSubs(CurrentItems(db, region), normalizedItems)
       IN /\ SeqRange(normalizedItems) = desired
          /\ Len(normalizedItems) = Cardinality(desired)
          /\ SeqRange(added) = desired \ current
          /\ Len(added) = Cardinality(desired \ current)
          /\ removed = current \ desired
          /\ SeqRange(added) \cap removed = {}
          /\ response'.body.added = Cardinality(desired \ current)
          /\ response'.body.removed = Cardinality(current \ desired)
          /\ RosterOf(db', region) = desired
          /\ \A other \in Regions \ {region} : RosterOf(db', other) = RosterOf(db, other)]_vars
\* a reconciliation that swapped A for B in North: only item lists that need
\* the empty-dropping, trimming or de-duplication give the roster {B}
RosterDiffWitness ==
  /\ IsRosterAnswer(response)
  /\ response.body.added = 1
  /\ response.body.removed = 1
  /\ RosterOf(db, sNorth) = {sB}

\* C9: after a committed reconciliation no removed sub has an entry or a port
\* row left, and every added sub has an entry.
RemovedGoneAddedPresent ==
  [][Reconciled =>
       LET region == request.region.s
           desired == DesiredSubs(request.items.a)
           current == RosterOf(db, region)
       IN /\ \A x \in current \ desired :
               /\ SelectEntry(db', region, x) = {}
               /\ \A e \in SelectEntry(db, region, x) :
                    \A i \in 1..Len(db'.ports) : db'.ports[i].odf_id # e.id
          /\ \A x \in desired \ current : SelectEntry(db', region, x) # {}]_vars
\* both rostered subs of North, each with an entry, were just removed
RemovedGoneWitness ==
  /\ IsRosterAnswer(response)
  /\ response.body.removed = 2
  /\ response.body.added = 0
  /\ nextId >= 3
  /\ \A e \in db.odf_entries : e.region # sNorth
  /\ \A i \in 1..Len(db.ports) : \E e \in db.odf_entries : e.id = db.ports[i].odf_id

\* C10: in every reachable store state every rostered (region, sub) has a
\* FrameEntry.
RosterEntryConsistency ==
  \A r \in db.subregions : SelectEntry(db, r.region, r.sub) # {}

\* ------------------------------------------ claims: transactions, defaults
\* this step answers a well-formed reconciliation request
Reconciling ==
  /\ IsRequest("POST", "/api/subregions")
  /\ Truthy(request.region)
  /\ IsArray(request.items)
  /\ response' # Null

\* C11: a reconciliation either commits, and then the roster replacement,
\* the deletion of every removed sub's entry and an entry for every added sub
\* are all in the store, or it fails, and then the whole store (roster,
\* entries and ports) is exactly as before the request and the caller is
\* answered 500 'Server error'.
ReconciliationAtomic ==
  [][Reconciling =>
       LET region == request.region.s
           desired == DesiredSubs(request.items.a)
           current == RosterOf(db, region)
       IN \/ /\ response'.status = 200
             /\ RosterOf(db', region) = desired
             /\ \A x \in current \ desired : SelectEntry(db', region, x) = {}
             /\ \A x \in desired \ current : SelectEntry(db', region, x) # {}
          \/ /\ response'.status = 500
             /\ response'.body.error = "Server error"
             /\ db' = db]_vars
\* a reconciliation failed in its loop after a default entry had been
\* inserted: the id is consumed, the entry is not in the store
ReconciliationAtomicWitness ==
  /\ response # Null
  /\ response.status = 500
  /\ response.body.details = "ensure"
  /\ nextId > 1
  /\ \A e \in db.odf_entries : e.id < nextId - 1

\* the port rows of entry id, in stored order
PortsOf(d, id) == LET Mine(r) == r.odf_id = id IN SelectSeq(d.ports, Mine)
\* the added subs of this reconciliation that already have an entry
AddedWithEntry ==
  {x \in DesiredSubs(request.items.a) \ RosterOf(db, request.region.s) :
     SelectEntry(db, request.region.s, x) # {}}
\* the added subs of this reconciliation that have no entry
AddedWithoutEntry ==
  {x \in DesiredSubs(request.items.a) \ RosterOf(db, request.region.s) :
     SelectEntry(db, request.region.s, x) = {}}

\* C12: when an added sub already has an entry, a committed reconciliation
\* leaves that entry's row (displayCount, extraFieldDefs) and every one of
\* its ports unchanged, and created counts none of these subs.
ReaddKeepsEntry ==
  [][Reconciled =>
       /\ \A x \in AddedWithEntry :
            /\ SelectEntry(db', request.region.s, x) = SelectEntry(db, request.region.s, x)
            /\ \A e \in SelectEntry(db, request.region.s, x) :
                 PortsOf(db', e.id) = PortsOf(db, e.id)
       /\ response'.body.created + Cardinality(AddedWithEntry) <= response'.body.added]_vars
\* the roster of North gained A, whose saved entry of two ports is still there
ReaddKeepsEntryWitness ==
  /\ IsRosterAnswer(response)
  /\ response.body.added = 1
  /\ response.body.created = 0
  /\ sA \in RosterOf(db, sNorth)
  /\ \E e \in SelectEntry(db, sNorth, sA) :
       e.displayCount = Num(2) /\ Len(PortsOf(db, e.id)) = 2

\* C13: the created count a reconciliation answers is the number of added
\* subs that had no entry before it, so it is at most the added count.
CreatedCountExact ==
  [][Reconciled =>
       /\ response'.body.created = Cardinality(AddedWithoutEntry)
       /\ response'.body.created <= response'.body.added]_vars
\* two subs were added, one of which had an entry already
CreatedCountWitness ==
  /\ IsRosterAnswer(response)
  /\ response.body.added = 2
  /\ response.body.created = 1

\* entry e of store d is a default entry: displayCount 96, no definitions,
\* 96 ports numbered 1..96 in order, labelled PORT-001..PORT-096, INACTIVE,
\* with empty destination, OTDR, joint, location and notes fields and an
\* empty customFields map
IsDefaultEntry(d, e) ==
  /\ e.displayCount = Num(96)
  /\ e.extraFieldDefs = [t |-> "json", v |-> Arr(<<>>)]
  /\ Len(PortsOf(d, e.id)) = 96
  /\ \A i \in 1..Len(PortsOf(d, e.id)) :
       LET r == PortsOf(d, e.id)[i] IN
       /\ r.port_number = Num(i)
       /\ r.label = Str(ThreeDigitLabel(i))
       /\ r.status = Str(sINACTIVE)
       /\ r.destination = Str(<<>>)
       /\ r.otdrDistance = Str(<<>>)
       /\ r.otdrDistanceValue = Str(<<>>)
       /\ r.branchingJoint = Str(<<>>)
       /\ r.cxLocation = Str(<<>>)
       /\ r.notes = Str(<<>>)
       /\ r.customFields = [t |-> "json", v |-> Map(<<>>)]

\* C14: every entry a committed reconciliation creates for an added sub is
\* a default entry, and it is the only entry of its key.
DefaultEntryShape ==
  [][Reconciled =>
       \A x \in AddedWithoutEntry :
         /\ Cardinality(SelectEntry(db', request.region.s, x)) = 1
         /\ \A e \in SelectEntry(db', request.region.s, x) : IsDefaultEntry(db', e)]_vars
\* C14, Scenario C: changing the roster of North from {A, B} to {B, C}
\* answers added 1 and removed 1, leaves (North, A) absent and (North, C)
\* present as a default entry.
ScenarioC ==
  [][(Reconciled /\ request.region.s = sNorth /\ RosterOf(db, sNorth) = {sA, sB}
        /\ DesiredSubs(request.items.a) = {sB, sC})
       => /\ response'.body.added = 1
          /\ response'.body.removed = 1
          /\ SelectEntry(db', sNorth, sA) = {}
          /\ SelectEntry(db', sNorth, sC) # {}
          /\ \A e \in SelectEntry(db', sNorth, sC) : IsDefaultEntry(db', e)]_vars
\* C14: the default-entry shape and Scenario C together
DefaultEntryAll == DefaultEntryShape /\ ScenarioC
\* Scenario C has just happened
DefaultEntryWitness ==
  /\ IsRosterAnswer(response)
  /\ response.body.added = 1
  /\ response.body.removed = 1
  /\ response.body.created = 1
  /\ RosterOf(db, sNorth) = {sB, sC}
  /\ SelectEntry(db, sNorth, sA) = {}
  /\ \E e \in SelectEntry(db, sNorth, sC) : Len(PortsOf(db, e.id)) = 96

\* ------------------------------------------------- claims: concurrency
\* no connection is inside a transaction
Quiescent == \A c \in Conns : conn[c].pc = "idle"

\* C15: in every store state, also one reached through interleaved
\* transactions, there is at most one entry per (region, sub).
KeyUnique ==
  \A e1 \in db.odf_entries : \A e2 \in db.odf_entries :
    (e1.region = e2.region /\ e1.sub = e2.sub) => e1.id = e2.id
\* C15, for the stores in which every transaction has committed: there is
\* at most one entry per (region, sub).
KeyUniqueCommitted == Quiescent => KeyUnique

\* entry row e of store d, with its ports, is what a save of payload wrote
StoredAs(d, e, payload) ==
  /\ e.displayCount = payload.displayCount
  /\ e.extraFieldDefs = JsonStringify(Or(payload.extraFieldDefs, Arr(<<>>)))
  /\ PortsOf(d, e.id) =
       [i \in 1..Len(payload.ports.a) |-> SavedPortRow(e.id, payload.ports.a[i])]
\* the save requests whose payload entry e carries, whole
WrittenBy(d, e) == {req \in {SaveA1, SaveA2} : StoredAs(d, e, req.payload)}

\* C16: once the interleaved saves of one (region, sub) have all committed,
\* every stored entry of the key carries displayCount, extraFieldDefs and
\* the full port set of exactly one request (or is an untouched default
\* entry), and the save that commits leaves the entry it wrote carrying its
\* own payload: the last writer wins.
NoMixing ==
  Quiescent =>
    \A e \in db.odf_entries :
      \/ Cardinality(WrittenBy(db, e)) = 1
      \/ IsDefaultEntry(db, e)
\* C16 (last writer): the save that commits leaves its own payload stored
LastWriterWins ==
  [][\A c \in Conns :
       (conn[c].pc = "commit" /\ conn'[c].pc = "idle" /\ conn[c].req.path = "/api/odf")
         => \E e \in db'.odf_entries :
              e.id = conn[c].odfId /\ WrittenBy(db', e) = {conn[c].req}]_vars
\* C16: no mixing in any committed store, and the last writer wins
LastWriterWinsWithoutMixing == []NoMixing /\ LastWriterWins
\* two saves of different payloads over the one entry of (North, A) ran
\* at the same time: the save of connection 2 was open when that of
\* connection 1 committed, and committed after it; its payload is stored
LastWriterWinsWitness ==
  /\ Quiescent
  /\ \A c \in Conns : conn[c].response # Null /\ conn[c].req.path = "/api/odf"
  /\ conn[1].overlapped = {[c |-> 2, n |-> conn[2].begun]}
  /\ conn[1].req # conn[2].req
  /\ conn[1].odfId = conn[2].odfId
  /\ Cardinality(SelectEntry(db, sNorth, sA)) = 1
  /\ \E e \in db.odf_entries : e.id = conn[1].odfId /\ WrittenBy(db, e) = {conn[2].req}

\* -------------------------------------------------- claims: entry save
\* this step answers a save whose payload passed the handler's validation
Saving ==
  /\ IsRequest("POST", "/api/odf")
  /\ Truthy(request.payload.region)
  /\ Truthy(request.payload.sub)
  /\ IsArray(request.payload.ports)
  /\ response' # Null

\* C17: a save either commits, and then the entry row and exactly the
\* submitted ports are stored under the key, or it fails at some statement
\* (also at a later batch of a multi-batch insert), and then the whole store
\* is exactly as before the call and the caller is answered 500 'Server
\* error'.
SaveAllOrNothing ==
  [][Saving =>
       \/ /\ response'.status = 200
          /\ SelectEntry(db', request.payload.region.s, request.payload.sub.s) # {}
          /\ \A e \in SelectEntry(db', request.payload.region.s, request.payload.sub.s) :
               StoredAs(db', e, request.payload)
       \/ /\ response'.status = 500
          /\ response'.body.error = "Server error"
          /\ db' = db]_vars
\* the second batch of a 101-port save over the two-port entry of
\* (North, A) failed: the entry still has its two ports
SaveAllOrNothingWitness ==
  /\ response # Null
  /\ response.status = 500
  /\ response.body.details = "batch"
  /\ \E e \in SelectEntry(db, sNorth, sA) :
       e.displayCount = Num(2) /\ Len(PortsOf(db, e.id)) = 2


\* C18: every stored entry has displayCount equal to the number of ports
\* stored for it.
PersistedShape ==
  \A e \in db.odf_entries : e.displayCount = Num(Len(PortsOf(db, e.id)))


\* -------------------------------------------------- claims: custom fields
\* the answer to a GET /api/odf that found the entry
IsEntryAnswer(r) == r # Null /\ r.status = 200 /\ "ports" \in DOMAIN r.body

\* C19 (read path): customFields of every port getOdfEntry returns is a map,
\* never an array, whichever encoding was submitted and stored.
ReadCustomFieldsAreMaps ==
  IsEntryAnswer(response) =>
    \A i \in 1..Len(response.body.ports) : response.body.ports[i].customFields.t = "map"
\* C19 (normalization): customFields of every port normalizeLoadedPorts
\* produces is a map from labels to strings, also when the raw port carried
\* an array as customFields or only the legacy sequences.
NormalizedCustomFieldsAreMaps ==
  (normalized # Undef /\ normalized # Null) =>
    \A i \in 1..Len(normalized.ports) :
      /\ normalized.ports[i].customFields.t = "map"
      /\ \A j \in 1..Len(normalized.ports[i].customFields.m) :
           normalized.ports[i].customFields.m[j].v.t = "str"


\* ------------------------------------------------------- claims: schema
\* the positions of the raw ports that carry a map-shaped customFields
MapShapedPorts(ports) ==
  {i \in 1..Len(ports) :
     ports[i] # Null /\ ports[i].customFields.t = "map"}
\* the schema the derivation rule gives for raw entry s: its explicit list
\* when non-empty, else the keys of the first port with a map-shaped
\* customFields, else the empty list
DerivedDefs(s) ==
  IF IsArray(s.extraFieldDefs) /\ Len(s.extraFieldDefs.a) > 0 THEN s.extraFieldDefs.a
  ELSE IF MapShapedPorts(s.ports.a) = {} THEN <<>>
  ELSE LET first == CHOOSE i \in MapShapedPorts(s.ports.a) :
                      \A j \in MapShapedPorts(s.ports.a) : i <= j
           keys == MapKeys(s.ports.a[first].customFields.m)
       IN [j \in 1..Len(keys) |-> Str(keys[j])]

\* C20: after AppState.init has loaded a raw entry, the schema in use is the
\* explicit definitions list when that is non-empty, otherwise the keys of
\* the first port carrying a map-shaped customFields, otherwise empty.
DerivationRule ==
  (phase = "ready" /\ SavedUsable(saved)) => AppState.extraFieldDefs = DerivedDefs(saved)


\* ------------------------------------------------------- claims: search
\* the answer to a search
IsSearchAnswer(r) == r # Null /\ r.status = 200 /\ "items" \in DOMAIN r.body

\* C21: a search returns at most 100 items, metadata and port matches
\* together, and the total it reports is the number of items it returns.
SearchBound ==
  IsSearchAnswer(response) =>
    /\ Len(response.body.items) <= 100
    /\ response.body.total = Len(response.body.items)
\* a search over 192 matching ports was cut at 100 items
SearchBoundWitness ==
  /\ IsSearchAnswer(response)
  /\ response.body.total = 100
  /\ Len(db.ports) > 100

\* C22: the case-folded keyword is a substring of the case-folded
\* matchedValue of every returned item (for a metadata match matchedValue
\* is the metadata string 'region sub').
KeywordInPreview ==
  IsSearchAnswer(response) =>
    \A i \in 1..Len(response.body.items) :
      LET item == response.body.items[i]
          word == ToLowerCase(item.keyword)
      IN \/ Contains(ToLowerCase(item.matchedValue), word)
         \/ /\ item.portNumber = Null
            /\ \/ Contains(ToLowerCase(item.storageKey), word)
               \/ Contains(ToLowerCase(item.region), word)
               \/ Contains(ToLowerCase(item.sub), word)

\* C23: a port match reports where it was found; for Scenario D, the item a
\* search for "faulty" returns for a port whose status is FAULTY has that
\* port's number and fieldPath "status".
MatchLocation ==
  (IsSearchAnswer(response) /\ response.body.keyword = sFaulty) =>
    \A i \in 1..Len(response.body.items) :
      LET item == response.body.items[i] IN
      (item.portNumber # Null
         /\ \E j \in 1..Len(db.ports) : \E e \in db.odf_entries :
              /\ e.id = db.ports[j].odf_id
              /\ e.region = item.region /\ e.sub = item.sub
              /\ db.ports[j].port_number = item.portNumber
              /\ ToLowerCase(ColumnText(db.ports[j].status)) = sFaulty)
        => item.fieldPath = <<"s","t","a","t","u","s">>

\* the position of the first item of (region, sub) and of its last item
FirstOf(items, region, sub) ==
  CHOOSE i \in 1..Len(items) :
    /\ items[i].region = region /\ items[i].sub = sub
    /\ \A j \in 1..(i - 1) : ~(items[j].region = region /\ items[j].sub = sub)
LastOf(items, region, sub) ==
  CHOOSE i \in 1..Len(items) :
    /\ items[i].region = region /\ items[i].sub = sub
    /\ \A j \in (i + 1)..Len(items) : ~(items[j].region = region /\ items[j].sub = sub)

\* C24: the items of one entry are contiguous in the result (no item of an
\* entry comes after an item of an entry that started later), and within an
\* entry the metadata item comes first.
EntryOrderKept ==
  IsSearchAnswer(response) =>
    LET items == response.body.items IN
    \A i \in 1..Len(items) : \A j \in 1..Len(items) :
      (i < j /\ items[i].region = items[j].region /\ items[i].sub = items[j].sub)
        => /\ items[j].portNumber # Null
           /\ \A k \in i..j : items[k].region = items[i].region /\ items[k].sub = items[i].sub

\* --------------------------------------------------- claims: round trip
PortStatuses == {Str(<<"A","C","T","I","V","E">>), Str(sINACTIVE), Str(<<"F","A","U","L","T","Y">>)}

\* a payload that holds a canonical entry: the normalizer leaves every port
\* as it is, every status is one of the three, and displayCount is the
\* number of ports
CanonicalPayload(payload) ==
  /\ IsArray(payload.ports)
  /\ IsArray(payload.extraFieldDefs)
  /\ payload.displayCount = Num(Len(payload.ports.a))
  /\ \A i \in 1..Len(payload.ports.a) :
       LET p == payload.ports.a[i] IN
       /\ p # Null
       /\ p = BasePort(p, i - 1, payload.extraFieldDefs)
       /\ p.status \in PortStatuses

\* the port read back has the wire fields of the port that was saved
SamePort(read, p) ==
  /\ read.id = p.id /\ read.label = p.label /\ read.status = p.status
  /\ read.fiberType = p.fiberType /\ read.connectorType = p.connectorType
  /\ read.destination = p.destination /\ read.otdrDistance = p.otdrDistance
  /\ read.otdrDistanceValue = p.otdrDistanceValue
  /\ read.lastMaintained = p.lastMaintained
  /\ read.branchingJoint = p.branchingJoint /\ read.cxLocation = p.cxLocation
  /\ read.notes = p.notes /\ read.customFields = p.customFields

\* every lastMaintained of the payload is empty or a bare calendar date
DatedPayload(payload) ==
  \A i \in 1..Len(payload.ports.a) :
    LET p == payload.ports.a[i] IN
    p.lastMaintained.s = <<>> \/ IsSqlDate(p.lastMaintained.s)

\* reading the key of the saved payload E gives E's displayCount,
\* extraFieldDefs and ports
ReadsBack(d, E) ==
  \A odf \in SelectEntry(d, E.region.s, E.sub.s) :
    LET got == getOdfEntry(d, E.region.s, E.sub.s, odf) IN
    /\ got.displayCount = E.displayCount
    /\ got.extraFieldDefs = E.extraFieldDefs
    /\ Len(got.ports) = Len(E.ports.a)
    /\ \A i \in 1..Len(got.ports) : SamePort(got.ports[i], E.ports.a[i])

\* C25: after a successful save of a canonical entry, reading the key gives
\* the displayCount, extraFieldDefs and ports of that entry, port by port,
\* and no port of the entry stored before.
SaveLoadRoundTrip ==
  [][(/\ IsRequest("POST", "/api/odf")
      /\ response' # Null /\ response'.status = 200
      /\ CanonicalPayload(request.payload))
       => ReadsBack(db', request.payload)]_vars

\* C25, for canonical entries whose lastMaintained fields are dates or empty
SaveLoadRoundTripOfDates ==
  [][(/\ IsRequest("POST", "/api/odf")
      /\ response' # Null /\ response'.status = 200
      /\ CanonicalPayload(request.payload)
      /\ DatedPayload(request.payload))
       => ReadsBack(db', request.payload)]_vars

\* -------------------------------------------------------- claims: frame
\* C26: a reconciliation of region R leaves the roster rows, the entries and
\* the port rows of every other region as they were, and within R the
\* entries and port rows of the subs that are both in the stored roster and
\* in the desired one.
ReconciliationFrame ==
  [][Reconciling =>
       LET region == request.region.s
           kept == RosterOf(db, region) \cap DesiredSubs(request.items.a)
           Framed(e) == e.region # region \/ e.sub \in kept
       IN /\ {r \in db'.subregions : r.region # region}
               = {r \in db.subregions : r.region # region}
          /\ {e \in db'.odf_entries : Framed(e)} = {e \in db.odf_entries : Framed(e)}
          /\ \A e \in db.odf_entries : Framed(e) => PortsOf(db', e.id) = PortsOf(db, e.id)]_vars
\* North was just reconciled to the roster {A, B}, at least one of which it
\* kept, while South has a roster and an entry with its ports
ReconciliationFrameWitness ==
  /\ IsRosterAnswer(response)
  /\ RosterOf(db, sNorth) = {sA, sB}
  /\ response.body.added + response.body.removed > 0
  /\ response.body.added < 2
  /\ RosterOf(db, sSouth) # {}
  /\ \E e \in db.odf_entries : e.region = sSouth /\ PortsOf(db, e.id) # <<>>

\* ------------------------------------------------------ claims: editing
\* the targets swapPortData is called with: the first two port numbers, a
\* number beyond every list, a numeral as text, and undefined
SwapTargets == {Num(1), Num(2), Num(999), Str(<<"2">>), Undef}
\* ids no port has
NoPortIds == {Num(999), Undef}

\* the four operations leave ports and displayCount alone when they return
\* false
FalseChangesNothing ==
  /\ \A today \in Dates :
       ~addPort(AppState, today).ok => addPort(AppState, today).state = AppState
  /\ ~removePort(AppState).ok => removePort(AppState).state = AppState
  /\ \A t \in SwapTargets :
       ~swapPortData(AppState, t).ok => swapPortData(AppState, t).state = AppState
  /\ \A id \in NoPortIds :
       LET updatedPort == [createDefaultPort(1, CHOOSE today \in Dates : TRUE, <<>>)
                             EXCEPT !.id = id]
       IN /\ ~updatePort(AppState, updatedPort, TRUE).ok
          /\ updatePort(AppState, updatedPort, TRUE).state = AppState

\* the port invariants of the editing state
PortInvariants(s) ==
  /\ s.displayCount = Len(s.ports)
  /\ SequentialPorts(s.ports)
  /\ Len(s.ports) >= 1
  /\ Len(s.ports) <= 576

EditingPreservesPortsWitnessOne ==
  /\ phase = "ready"
  /\ Len(saveRequests) = 2
  /\ Len(saveRequests[1].ports) = 1
  /\ Len(AppState.ports) = 1
  /\ AppState.ports[1].notes = Str(<<"c","u","t">>)
  /\ ~removePort(AppState).ok

\* the port invariants in every state of the page, whatever was loaded
EditingKeepsPortsFromLoad ==
  phase = "ready" => PortInvariants(AppState)

\* the fields a swap exchanges
DataFields == DOMAIN EmptyObj \ {"id", "label"}

\* calling swapPortData(t) in state s: what the call must do
SwapContract(s, t) ==
  LET r == swapPortData(s, t)
      c == FindIndex(s.ports, s.selectedPortId)
      k == FindIndex(s.ports, t)
  IN /\ (t = s.selectedPortId \/ t.t # "num" \/ k = 0) => ~r.ok
     /\ ~r.ok => r.state = s
     /\ r.ok =>
          /\ Len(r.state.ports) = Len(s.ports)
          /\ \A f \in DataFields :
               /\ r.state.ports[c][f] = s.ports[k][f]
               /\ r.state.ports[k][f] = s.ports[c][f]
          /\ \A i \in {c, k} :
               /\ r.state.ports[i].id = s.ports[i].id
               /\ r.state.ports[i].label = s.ports[i].label
          /\ \A i \in 1..Len(s.ports) : i \notin {c, k} => r.state.ports[i] = s.ports[i]
          /\ r.state.displayCount = s.displayCount
          /\ r.state.selectedPortId = s.selectedPortId
          /\ r.state.extraFieldDefs = s.extraFieldDefs
          /\ swapPortData(r.state, t).ok
          /\ swapPortData(r.state, t).state = s

\* C28: in every state of the page and for every target, swapPortData
\* exchanges all fields but id and label between the selected and the
\* target port, leaves the other ports, displayCount and selectedPortId
\* alone, undoes itself when called again, and returns false without any
\* change for a target that is the selected port, is no number, or is no
\* port.
SwapExchanges ==
  phase = "ready" => \A t \in SwapTargets : SwapContract(AppState, t)
\* the switch box has exchanged the data of the two loaded ports
SwapExchangesWitness ==
  /\ phase = "ready"
  /\ Len(saveRequests) = 1
  /\ saveRequests[1] = Snapshot(AppState)
  /\ Len(AppState.ports) = 2
  /\ AppState.ports[1].status = Str(<<"F","A","U","L","T","Y">>)
  /\ AppState.ports[1].label = Str(ThreeDigitLabel(1))
  /\ AppState.ports[2].status = Str(<<"A","C","T","I","V","E">>)
  /\ AppState.ports[2].destination = Str(<<>>)
  /\ AppState.ports[1].destination = Str(<<"h","u","b">>)

\* ------------------------------------------------- claims: schema edits
\* every port of s has exactly the definitions of s as its customFields keys
Closed(s) ==
  \A i \in 1..Len(s.ports) :
    /\ s.ports[i].customFields.t = "map"
    /\ MapKeys(s.ports[i].customFields.m) =
         [j \in 1..Len(s.extraFieldDefs) |-> JsString(s.extraFieldDefs[j])]

\* C29: a schema edit (addCustomField, removeCustomField, a rename through
\* syncExtraFieldDefsFromDom, addPort, updatePort) of a page whose ports
\* all carry exactly extraFieldDefs as their customFields keys leads to a
\* page whose ports do, also when a rename makes two labels equal.
SchemaEditsKeepClosure ==
  [][(phase = "ready" /\ Closed(AppState)) => Closed(AppState')]_vars

\* C29 (rename): a rename leaves the value each port has at a position at
\* that position under the new label
RenameKeepsValues ==
  [][(/\ phase = "ready"
      /\ Closed(AppState)
      /\ Len(AppState'.extraFieldDefs) = Len(AppState.extraFieldDefs)
      /\ AppState'.extraFieldDefs # AppState.extraFieldDefs
      /\ Len(AppState'.ports) = Len(AppState.ports)
      /\ Closed(AppState'))
       => \A i \in 1..Len(AppState.ports) :
            AppState.ports[i].id # AppState.selectedPortId =>
              \A j \in 1..Len(AppState.extraFieldDefs) :
                AppState'.ports[i].customFields.m[j].v = AppState.ports[i].customFields.m[j].v]_vars

\* ------------------------------------------------------ claims: saving
\* every save the client issued has been stored
AllSavesCompleted == saveRequests # <<>> /\ completed = 1..Len(saveRequests)

\* C30: once every save the client issued has completed, the entry stored
\* for the page's (region, sub) is the client's AppState: its ports, its
\* displayCount and its extraFieldDefs.
SavesConverge ==
  (phase = "ready" /\ AllSavesCompleted) =>
    \A e \in SelectEntry(db, ODFContext.region, ODFContext.sub) :
      StoredAs(db, e, SaveBody(Snapshot(AppState)))

\* the save issued last, when the server stores it, leaves the client's
\* AppState stored: only a later completion of an earlier save undoes it
LastSaveStoresAppState ==
  [][(phase = "ready" /\ Len(saveRequests) \in completed' \ completed) =>
       \A e \in SelectEntry(db', ODFContext.region, ODFContext.sub) :
         StoredAs(db', e, SaveBody(Snapshot(AppState)))]_vars

====
